---- MODULE Spec2Model ----
(***************************************************************************)
(* Order book, simulation step, price model and ensemble coordinator of    *)
(* the algorithmic trading simulator.                                      *)
(*                                                                         *)
(* Prices and cash are integers counted in tenths of a currency unit, so   *)
(* that the 0.1 pressure factor and the +-0.5 noise are whole numbers.     *)
(***************************************************************************)
EXTENDS Integers, Sequences, FiniteSets, TLC

VARIABLES book, ret, sim, mkt, ens, runA, runB, conc, run, agent, clock

vars == <<book, ret, sim, mkt, ens, runA, runB, conc, run, agent, clock>>

----------------------------------------------------------------------------
(* Bounds of the order-book specification *)

MaxOrderId == 3
MaxPrice == 2
MaxQty == 2

\* the trader ids of the orders added
BookTraders == {0}

----------------------------------------------------------------------------
(* Helpers *)

Min(a, b) == IF a < b THEN a ELSE b

Max(a, b) == IF a > b THEN a ELSE b

SetMax(S) == CHOOSE x \in S : \A y \in S : y <= x

SetMin(S) == CHOOSE x \in S : \A y \in S : x <= y

Range(s) == {s[i] : i \in DOMAIN s}

\* std::map with no keys
EmptyMap == [p \in {} |-> <<>>]

\* m[p].push_back(o), creating the level when absent
MapPush(m, p, o) ==
    [q \in (DOMAIN m) \cup {p} |->
        IF q = p
        THEN (IF p \in DOMAIN m THEN Append(m[p], o) ELSE <<o>>)
        ELSE m[q]]

\* m.erase(p)
MapErase(m, p) == [q \in (DOMAIN m) \ {p} |-> m[q]]

----------------------------------------------------------------------------
(* order.hpp *)

Order(id, t_id, t, p, q, ts) ==
    [order_id |-> id, trader_id |-> t_id, type |-> t, price |-> p,
     quantity |-> q, filled_quantity |-> 0, status |-> "PENDING",
     timestamp |-> ts]

getRemainingQuantity(o) == o.quantity - o.filled_quantity

isFilled(o) == o.filled_quantity >= o.quantity

----------------------------------------------------------------------------
(* order_book.cpp *)

OrderBook ==
    [buy_orders |-> EmptyMap, sell_orders |-> EmptyMap,
     executed_trades |-> <<>>, next_order_id |-> 1, next_trade_id |-> 1]

\* faulty variant: an id the caller supplied is kept
addOrder_keeps_id(b, order) ==
    LET o == IF order.order_id # 0 THEN order
             ELSE [order EXCEPT !.order_id = b.next_order_id]
        b1 == [b EXCEPT !.next_order_id = @ + 1]
    IN  IF o.type = "BUY"
        THEN [b1 EXCEPT !.buy_orders = MapPush(@, o.price, o)]
        ELSE [b1 EXCEPT !.sell_orders = MapPush(@, o.price, o)]

\* faulty variant: the order goes to the front of the queue of its level
addOrder_front(b, order) ==
    LET o == [order EXCEPT !.order_id = b.next_order_id]
        b1 == [b EXCEPT !.next_order_id = @ + 1]
        front(m) == [q \in (DOMAIN m) \cup {o.price} |->
                        IF q # o.price THEN m[q]
                        ELSE IF q \in DOMAIN m THEN <<o>> \o m[q] ELSE <<o>>]
    IN  IF o.type = "BUY"
        THEN [b1 EXCEPT !.buy_orders = front(@)]
        ELSE [b1 EXCEPT !.sell_orders = front(@)]

addOrder(b, order) ==
    LET o == [order EXCEPT !.order_id = b.next_order_id]
        b1 == [b EXCEPT !.next_order_id = @ + 1]
    IN  IF o.type = "BUY"
        THEN [b1 EXCEPT !.buy_orders = MapPush(@, o.price, o)]
        ELSE [b1 EXCEPT !.sell_orders = MapPush(@, o.price, o)]

\* size of buy_list above which the loop over buy orders runs in parallel
OmpIfThreshold == 10

\* threads of the parallel loop over buy orders
OmpThreads == 2

\* orders in which a dynamically scheduled loop of n iterations can enter
\* the critical section: iterations are handed out in index order, and at
\* most OmpThreads of them are in flight
RECURSIVE dynamicOrders(_, _)
dynamicOrders(done, n) ==
    IF Len(done) = n
    THEN {done}
    ELSE UNION { dynamicOrders(Append(done, i), n) :
                    i \in {j \in 1..Min(n, Len(done) + OmpThreads) :
                              j \notin Range(done)} }

buyLoopOrders(n) ==
    IF n > OmpIfThreshold
    THEN dynamicOrders(<<>>, n)
    ELSE {[i \in 1..n |-> i]}

\* faulty variant: the fill ignores what the sell order has left
match_quantity_buy_only(buy_order, sell_order) ==
    getRemainingQuantity(buy_order)

\* faulty variant: the fill is the larger of the two remainders
match_quantity_max(buy_order, sell_order) ==
    Max(getRemainingQuantity(buy_order), getRemainingQuantity(sell_order))

match_quantity(buy_order, sell_order) ==
    Min(getRemainingQuantity(buy_order), getRemainingQuantity(sell_order))

\* faulty variant: the trade is priced at the buy order's limit
trade_price_bid(buy_order, sell_order) == buy_order.price

\* trade.price = sell_order.price
trade_price(buy_order, sell_order) == sell_order.price

\* faulty variant: the status is not updated by a fill
fillStatus_stale(o) == o

\* status assignment after a fill
fillStatus(o) ==
    [o EXCEPT !.status = IF isFilled(o) THEN "FILLED" ELSE "PARTIALLY_FILLED"]

\* faulty variant: an order that is matched counts as filled in whole
fill_whole(o, match_quantity_) ==
    fillStatus([o EXCEPT !.filled_quantity = @ + o.quantity])

\* filled_quantity += match_quantity, and the status that follows from it
fill(o, match_quantity_) ==
    fillStatus([o EXCEPT !.filled_quantity = @ + match_quantity_])

\* faulty variant: the trade is put at the front of the history
recordTrade_front(executed_trades, trade) == <<trade>> \o executed_trades

\* executed_trades.push_back(trade)
recordTrade(executed_trades, trade) == Append(executed_trades, trade)

\* the loop over sell_list for one buy order; st carries buy_order,
\* sell_list, next_trade_id, new_trades and executed_trades
RECURSIVE sellLoop(_, _)
sellLoop(st, j) ==
    IF j > Len(st.sell_list)
    THEN st
    ELSE LET sell_order == st.sell_list[j]
             buy_order == st.buy_order
         IN  IF isFilled(sell_order)
             THEN sellLoop(st, j + 1)
             ELSE IF isFilled(buy_order)
             THEN st
             ELSE LET mq == match_quantity(buy_order, sell_order)
                      trade == [trade_id |-> st.next_trade_id,
                                buy_order_id |-> buy_order.order_id,
                                sell_order_id |-> sell_order.order_id,
                                buyer_id |-> buy_order.trader_id,
                                seller_id |-> sell_order.trader_id,
                                price |-> trade_price(buy_order, sell_order),
                                quantity |-> mq,
                                timestamp |-> buy_order.timestamp]
                      b2 == fill(buy_order, mq)
                      s2 == fill(sell_order, mq)
                  IN  IF mq > 0
                      THEN sellLoop(
                             [buy_order |-> b2,
                              sell_list |-> [st.sell_list EXCEPT ![j] = s2],
                              next_trade_id |-> st.next_trade_id + 1,
                              new_trades |-> Append(st.new_trades, trade),
                              executed_trades |->
                                  recordTrade(st.executed_trades, trade)],
                             j + 1)
                      ELSE sellLoop(st, j + 1)

\* the loop over buy_list, its iterations taken in the order ord
RECURSIVE buyLoop(_, _, _)
buyLoop(st, ord, k) ==
    IF k > Len(ord)
    THEN st
    ELSE LET i == ord[k]
             buy_order == st.buy_list[i]
         IN  IF isFilled(buy_order)
             THEN buyLoop(st, ord, k + 1)
             ELSE LET r == sellLoop(
                             [buy_order |-> buy_order,
                              sell_list |-> st.sell_list,
                              next_trade_id |-> st.next_trade_id,
                              new_trades |-> st.new_trades,
                              executed_trades |-> st.executed_trades], 1)
                  IN  buyLoop(
                        [buy_list |-> [st.buy_list EXCEPT ![i] = r.buy_order],
                         sell_list |-> r.sell_list,
                         next_trade_id |-> r.next_trade_id,
                         new_trades |-> r.new_trades,
                         executed_trades |-> r.executed_trades],
                        ord, k + 1)

\* faulty variant: an order that has been matched at all is erased
removeFilled_touched(list) == SelectSeq(list, LAMBDA o : o.filled_quantity = 0)

\* std::remove_if(..., isFilled) followed by erase
removeFilled(list) == SelectSeq(list, LAMBDA o : ~isFilled(o))

\* the elements that removeFilled drops
filledOf(list) == SelectSeq(list, LAMBDA o : isFilled(o))

\* faulty variant: a level whose list is empty stays in the map
eraseIfEmpty_keep(m, p) == m

\* "Clean up empty price levels"
eraseIfEmpty(m, p) == IF m[p] = <<>> THEN MapErase(m, p) ELSE m

\* faulty variant: equal best prices are not matched
canMatch_strict(best_bid, best_ask) == best_bid > best_ask

\* faulty variant: the best levels are matched whatever their prices
canMatch_always(best_bid, best_ask) == TRUE

\* bid >= ask: the two best levels can be matched
canMatch(best_bid, best_ask) == ~(best_bid < best_ask)

\* one pass of the while loop over the two best levels, the buy loop taken
\* in the order ord; st carries the book and new_trades, and purged records
\* the orders erased as filled
matchLevels(st, ord) ==
    LET best_bid == SetMax(DOMAIN st.buy_orders)
        best_ask == SetMin(DOMAIN st.sell_orders)
        r == buyLoop([buy_list |-> st.buy_orders[best_bid],
                      sell_list |-> st.sell_orders[best_ask],
                      next_trade_id |-> st.next_trade_id,
                      new_trades |-> st.new_trades,
                      executed_trades |-> st.executed_trades], ord, 1)
        buys == [st.buy_orders EXCEPT ![best_bid] = removeFilled(r.buy_list)]
        sells == [st.sell_orders EXCEPT ![best_ask] = removeFilled(r.sell_list)]
    IN  [buy_orders |-> eraseIfEmpty(buys, best_bid),
         sell_orders |-> eraseIfEmpty(sells, best_ask),
         executed_trades |-> r.executed_trades,
         next_order_id |-> st.next_order_id,
         next_trade_id |-> r.next_trade_id,
         new_trades |-> r.new_trades,
         purged |-> st.purged \o filledOf(r.buy_list) \o filledOf(r.sell_list)]

\* the while loop ends: a side of the book is empty or the best bid is
\* below the best ask
loopStops(st) ==
    IF DOMAIN st.buy_orders = {} \/ DOMAIN st.sell_orders = {}
    THEN TRUE
    ELSE ~canMatch(SetMax(DOMAIN st.buy_orders), SetMin(DOMAIN st.sell_orders))

\* one iteration of the while loop that does not stop: the states it can
\* leave
loopPass(st) ==
    LET best_bid == SetMax(DOMAIN st.buy_orders)
        best_ask == SetMin(DOMAIN st.sell_orders)
        buy_list == st.buy_orders[best_bid]
        sell_list == st.sell_orders[best_ask]
    IN  IF buy_list = <<>> \/ sell_list = <<>>
        THEN { [st EXCEPT !.buy_orders = eraseIfEmpty(@, best_bid),
                          !.sell_orders = eraseIfEmpty(@, best_ask)] }
        ELSE { matchLevels(st, ord) : ord \in buyLoopOrders(Len(buy_list)) }

\* the while loop of matchOrders: the set of states it can end in
RECURSIVE whileLoop(_)
whileLoop(st) ==
    IF loopStops(st)
    THEN {st}
    ELSE UNION { whileLoop(n) : n \in loopPass(st) }

\* the results matchOrders can return on book b, each with the book it leaves
matchOrders(b) ==
    { [book |-> [buy_orders |-> st.buy_orders,
                 sell_orders |-> st.sell_orders,
                 executed_trades |-> st.executed_trades,
                 next_order_id |-> st.next_order_id,
                 next_trade_id |-> st.next_trade_id],
       new_trades |-> st.new_trades,
       purged |-> st.purged] :
      st \in whileLoop([buy_orders |-> b.buy_orders,
                        sell_orders |-> b.sell_orders,
                        executed_trades |-> b.executed_trades,
                        next_order_id |-> b.next_order_id,
                        next_trade_id |-> b.next_trade_id,
                        new_trades |-> <<>>,
                        purged |-> <<>>]) }

\* faulty variant: a level left empty stays in the map
cleanupSide_keeps_levels(m) == [p \in DOMAIN m |-> removeFilled(m[p])]

\* one side of cleanupFilledOrders
cleanupSide(m) ==
    LET keep == {p \in DOMAIN m : removeFilled(m[p]) # <<>>}
    IN  [p \in keep |-> removeFilled(m[p])]

cleanupFilledOrders(b) ==
    [b EXCEPT !.buy_orders = cleanupSide(@), !.sell_orders = cleanupSide(@)]

getBestBid(b) == IF DOMAIN b.buy_orders = {} THEN 0 ELSE SetMax(DOMAIN b.buy_orders)

getBestAsk(b) == IF DOMAIN b.sell_orders = {} THEN 0 ELSE SetMin(DOMAIN b.sell_orders)

\* every order resting in the book
bookOrders(b) ==
    UNION {Range(b.buy_orders[p]) : p \in DOMAIN b.buy_orders}
    \cup UNION {Range(b.sell_orders[p]) : p \in DOMAIN b.sell_orders}

\* count of getBuyOrderCount and getSellOrderCount over the levels keys
RECURSIVE orderCount(_, _)
orderCount(m, keys) ==
    IF keys = {} THEN 0
    ELSE LET p == CHOOSE q \in keys : TRUE
         IN  Len(m[p]) + orderCount(m, keys \ {p})

getBuyOrderCount(b) == orderCount(b.buy_orders, DOMAIN b.buy_orders)

getSellOrderCount(b) == orderCount(b.sell_orders, DOMAIN b.sell_orders)

\* the keys of a price map in iteration order: buy_orders is ordered by
\* std::greater (descending), sell_orders ascending
RECURSIVE keysInOrder(_, _)
keysInOrder(S, descending) ==
    IF S = {} THEN <<>>
    ELSE LET k == IF descending THEN SetMax(S) ELSE SetMin(S)
         IN  <<k>> \o keysInOrder(S \ {k}, descending)

\* total_quantity of one level: the loop over its orders from index k
RECURSIVE total_quantity(_, _)
total_quantity(orders, k) ==
    IF k > Len(orders) THEN 0
    ELSE getRemainingQuantity(orders[k]) + total_quantity(orders, k + 1)

\* the loop of getBuyDepth and getSellDepth over the levels keys[i..], count
\* levels already pushed
RECURSIVE depthLoop(_, _, _, _, _)
depthLoop(m, keys, i, count, levels) ==
    IF i > Len(keys) \/ count >= levels THEN <<>>
    ELSE <<[price |-> keys[i], total_quantity |-> total_quantity(m[keys[i]], 1)]>>
         \o depthLoop(m, keys, i + 1, count + 1, levels)

\* faulty variant: the buy levels are walked from the lowest price
getBuyDepth_ascending(b, levels) ==
    depthLoop(b.buy_orders, keysInOrder(DOMAIN b.buy_orders, FALSE), 1, 0,
              levels)

getBuyDepth(b, levels) ==
    depthLoop(b.buy_orders, keysInOrder(DOMAIN b.buy_orders, TRUE), 1, 0,
              levels)

getSellDepth(b, levels) ==
    depthLoop(b.sell_orders, keysInOrder(DOMAIN b.sell_orders, FALSE), 1, 0,
              levels)

\* the orders of the levels keys[i..] that cleanupFilledOrders erases
RECURSIVE filledInLevels(_, _, _)
filledInLevels(m, keys, i) ==
    IF i > Len(keys) THEN <<>>
    ELSE filledOf(m[keys[i]]) \o filledInLevels(m, keys, i + 1)

\* the orders cleanupFilledOrders erases: buy side, then sell side
filledInBook(b) ==
    filledInLevels(b.buy_orders, keysInOrder(DOMAIN b.buy_orders, TRUE), 1)
    \o filledInLevels(b.sell_orders,
                      keysInOrder(DOMAIN b.sell_orders, FALSE), 1)

----------------------------------------------------------------------------
(* Bounds and configuration of the simulation specifications *)

\* number of traders (config.num_traders)
NumTraders == 4
\* config.initial_price, in tenths
InitialPrice == 10
\* config.initial_cash, in tenths
InitialCash == 140
\* ticks of a run
MaxTicks == 6
\* orders a run adds to its book
MaxSimOrderId == 2
\* threads of the decision phase
SimThreads == 2

----------------------------------------------------------------------------
(* market.cpp *)

\* noise_dist(-0.5, 0.5), in tenths
NoiseMax == 5

\* the noise values the market specification draws
MarketNoise == {-NoiseMax, 0, NoiseMax}

\* the noise values the simulation specifications draw
SimNoise == {-NoiseMax, NoiseMax}

\* capacity of Market::price_history
HistoryCap == 1000

\* faulty variant: the accumulators are not zeroed
Market_pressured(initial_price) ==
    [current_price |-> initial_price, base_price |-> initial_price,
     price_history |-> <<initial_price>>,
     buy_pressure |-> 1, sell_pressure |-> 0]

Market(initial_price) ==
    [current_price |-> initial_price, base_price |-> initial_price,
     price_history |-> <<initial_price>>,
     buy_pressure |-> 0, sell_pressure |-> 0]

\* faulty variant: the price the market was constructed with
getCurrentPrice_base(m) == m.base_price

getCurrentPrice(m) == m.current_price

\* static_cast<int>(x * 0.8)
decay(x) == IF x >= 0 THEN (x * 8) \div 10 ELSE -(((-x) * 8) \div 10)

\* faulty variant: only the lower bound is enforced
clampPrice_low(p, base_price) == Max((base_price * 2) \div 10, p)

\* std::max(base_price * 0.2, std::min(p, base_price * 3.0))
clampPrice(p, base_price) ==
    Max((base_price * 2) \div 10, Min(p, base_price * 3))

\* faulty variant: nothing is erased from the history
updatePrice_unbounded(m, buy_orders, sell_orders, noise) ==
    LET bp == m.buy_pressure + buy_orders
        sp == m.sell_pressure + sell_orders
        price == clampPrice(m.current_price + (bp - sp) + noise, m.base_price)
    IN  [current_price |-> price,
         base_price |-> m.base_price,
         price_history |-> Append(m.price_history, price),
         buy_pressure |-> decay(bp),
         sell_pressure |-> decay(sp)]

updatePrice(m, buy_orders, sell_orders, noise) ==
    LET bp == m.buy_pressure + buy_orders
        sp == m.sell_pressure + sell_orders
        pressure_diff == bp - sp
        price_change == pressure_diff + noise
        price == clampPrice(m.current_price + price_change, m.base_price)
        hist == Append(m.price_history, price)
    IN  [current_price |-> price,
         base_price |-> m.base_price,
         price_history |-> IF Len(hist) > HistoryCap THEN Tail(hist) ELSE hist,
         buy_pressure |-> decay(bp),
         sell_pressure |-> decay(sp)]

----------------------------------------------------------------------------
(* trader.cpp *)

RECURSIVE SeqSum(_, _, _)
\* s[from] + ... + s[to]
SeqSum(s, from, to) ==
    IF from > to THEN 0 ELSE s[from] + SeqSum(s, from + 1, to)

\* capacity of Trader::price_history
WindowCap == 20
\* samples a decision needs
MinSamples == 5

Trader(trader_id, strat, initial_cash) ==
    [id |-> trader_id, strategy |-> strat, cash |-> initial_cash,
     holdings |-> 0, trades_executed |-> 0, price_history |-> <<>>]

\* the strategy's verdict on window h: "buy", "sell" or "none"; draw is the
\* value of dist(rng) of the RANDOM strategy
signal(strategy, h, current_price, draw) ==
    LET n == Len(h)
        half == n \div 2
        recent == SeqSum(h, half + 1, n)
        older == SeqSum(h, 1, half)
        total == SeqSum(h, 1, n)
        recent_count == Min(3, n)
        last3 == SeqSum(h, n - recent_count + 1, n)
    IN  CASE strategy = "MOMENTUM" ->
               IF recent * half * 100 > older * 102 * (n - half) THEN "buy"
               ELSE IF recent * half * 100 < older * 98 * (n - half) THEN "sell"
               ELSE "none"
          [] strategy = "MEAN_REVERSION" ->
               IF current_price * n * 100 < total * 95 THEN "buy"
               ELSE IF current_price * n * 100 > total * 105 THEN "sell"
               ELSE "none"
          [] strategy = "RANDOM" ->
               IF draw = 1 THEN "buy" ELSE IF draw = 2 THEN "sell" ELSE "none"
          [] strategy = "RISK_AVERSE" ->
               IF current_price * n * 100 < total * 90 THEN "buy"
               ELSE IF current_price * n * 100 > total * 110 THEN "sell"
               ELSE "none"
          [] strategy = "HIGH_RISK" ->
               IF current_price * recent_count * 100 > last3 * 101 THEN "buy"
               ELSE IF current_price * recent_count * 100 < last3 * 99 THEN "sell"
               ELSE "none"
          [] OTHER -> "none"

\* faulty variant: one size for every strategy
trade_size_flat(strategy) == 10

trade_size(strategy) ==
    IF strategy = "RISK_AVERSE" THEN 5
    ELSE IF strategy = "HIGH_RISK" THEN 20
    ELSE 10

\* faulty variant: nothing is erased from the window
pushPrice_unbounded(price_history, current_price) ==
    Append(price_history, current_price)

\* price_history.push_back(current_price), and the oldest entry erased when
\* the window is over its capacity
pushPrice(price_history, current_price) ==
    LET pushed == Append(price_history, current_price)
    IN  IF Len(pushed) > WindowCap THEN Tail(pushed) ELSE pushed

\* faulty variant: the order is sized to what the trader has instead of
\* being dropped
makeDecision_unchecked(tr, current_price, timestamp, draw) ==
    LET h == pushPrice(tr.price_history, current_price)
        tr2 == [tr EXCEPT !.price_history = h]
        none == [trader_id |-> tr.id, price |-> current_price,
                 timestamp |-> timestamp, quantity |-> 0, is_buy |-> TRUE]
        sig == signal(tr.strategy, h, current_price, draw)
        size == trade_size(tr.strategy)
    IN  IF Len(h) < MinSamples
        THEN [trader |-> tr2, trade |-> none]
        ELSE IF sig = "buy"
        THEN [trader |-> tr2,
              trade |-> [none EXCEPT
                           !.quantity = Min(size, tr.cash \div current_price)]]
        ELSE IF sig = "sell"
        THEN [trader |-> tr2,
              trade |-> [none EXCEPT !.is_buy = FALSE,
                                     !.quantity = Min(size, tr.holdings)]]
        ELSE [trader |-> tr2, trade |-> none]

\* the trader after the call, and the Trade it returns
makeDecision(tr, current_price, timestamp, draw) ==
    LET h == pushPrice(tr.price_history, current_price)
        tr2 == [tr EXCEPT !.price_history = h]
        none == [trader_id |-> tr.id, price |-> current_price,
                 timestamp |-> timestamp, quantity |-> 0, is_buy |-> TRUE]
        sig == signal(tr.strategy, h, current_price, draw)
        size == trade_size(tr.strategy)
    IN  IF Len(h) < MinSamples
        THEN [trader |-> tr2, trade |-> none]
        ELSE IF sig = "buy" /\ tr.cash >= current_price * size
        THEN [trader |-> tr2,
              trade |-> [none EXCEPT
                           !.quantity = Min(size, tr.cash \div current_price)]]
        ELSE IF sig = "sell" /\ tr.holdings >= size
        THEN [trader |-> tr2,
              trade |-> [none EXCEPT !.is_buy = FALSE,
                                     !.quantity = Min(size, tr.holdings)]]
        ELSE [trader |-> tr2, trade |-> none]

\* the limit order of a decision: the decided side and quantity at the
\* current price
createOrder(tr, current_price, timestamp, draw) ==
    LET d == makeDecision(tr, current_price, timestamp, draw)
    IN  [trader |-> d.trader,
         order |-> [trader_id |-> d.trade.trader_id,
                    is_buy |-> d.trade.is_buy,
                    price |-> d.trade.price,
                    quantity |-> d.trade.quantity,
                    timestamp |-> d.trade.timestamp]]

\* faulty variant: a buy is settled whatever the cash
executeTrade_unguarded(tr, trade) ==
    IF trade.quantity = 0 THEN tr
    ELSE IF trade.is_buy
    THEN [tr EXCEPT !.cash = @ - trade.price * trade.quantity,
                    !.holdings = @ + trade.quantity,
                    !.trades_executed = @ + 1]
    ELSE IF tr.holdings >= trade.quantity
    THEN [tr EXCEPT !.cash = @ + trade.price * trade.quantity,
                    !.holdings = @ - trade.quantity,
                    !.trades_executed = @ + 1]
    ELSE tr

executeTrade(tr, trade) ==
    IF trade.quantity = 0 THEN tr
    ELSE IF trade.is_buy
    THEN LET cost == trade.price * trade.quantity
         IN  IF tr.cash >= cost
             THEN [tr EXCEPT !.cash = @ - cost,
                             !.holdings = @ + trade.quantity,
                             !.trades_executed = @ + 1]
             ELSE tr
    ELSE IF tr.holdings >= trade.quantity
    THEN [tr EXCEPT !.cash = @ + trade.price * trade.quantity,
                    !.holdings = @ - trade.quantity,
                    !.trades_executed = @ + 1]
    ELSE tr

\* settlement of one side of a confirmed trade
executeOrder(tr, is_buy, price, quantity) ==
    executeTrade(tr, [trader_id |-> tr.id, price |-> price,
                      quantity |-> quantity, is_buy |-> is_buy,
                      timestamp |-> 0])

----------------------------------------------------------------------------
(* simulation.cpp *)

\* the strategy the constructor gives trader i
strategyOf(i) ==
    IF i = 0 THEN "HUMAN"
    ELSE CASE i % 9 = 0 -> "MOMENTUM"
           [] i % 9 = 1 -> "MEAN_REVERSION"
           [] i % 9 = 2 -> "RANDOM"
           [] i % 9 = 3 -> "RISK_AVERSE"
           [] i % 9 = 4 -> "HIGH_RISK"
           [] i % 9 = 5 -> "RSI_BASED"
           [] i % 9 = 6 -> "MACD_BASED"
           [] i % 9 = 7 -> "BOLLINGER"
           [] OTHER -> "MULTI_INDICATOR"

initial_holdings == 50

TradingSimulation(num_traders, initial_price, initial_cash) ==
    [traders |-> [i \in 0..(num_traders - 1) |->
                    [Trader(i, strategyOf(i), initial_cash) EXCEPT
                       !.holdings = IF i < num_traders \div 2
                                    THEN initial_holdings ELSE 0]],
     market |-> Market(initial_price),
     order_book |-> OrderBook,
     current_time |-> 0,
     current_orders |-> <<>>,
     executed_trades |-> <<>>]

\* the iterations of "omp for" that thread t of nthreads runs: a static
\* schedule of contiguous blocks over 0..n-1
threadChunk(t, nthreads, n) ==
    LET q == n \div nthreads
        r == n % nthreads
        lo == (t - 1) * q + Min(t - 1, r)
        cnt == q + (IF t - 1 < r THEN 1 ELSE 0)
    IN  [k \in 1..cnt |-> lo + k - 1]

\* the orders in which the threads can reach the critical section
RECURSIVE Perms(_)
Perms(S) ==
    IF S = {} THEN {<<>>}
    ELSE UNION { {<<x>> \o p : p \in Perms(S \ {x})} : x \in S }

mergeOrders == Perms(1..SimThreads)

\* the random number trader i draws in this tick (only the RANDOM strategy
\* draws one)
drawOf(draw, i) == IF i \in DOMAIN draw THEN draw[i] ELSE 0

\* the traders that draw a random number in makeDecision
randomTraders(traders) ==
    {i \in DOMAIN traders : traders[i].strategy = "RANDOM"}

\* the loop body is skipped for trader 0
skipsDecision(tr) == tr.id = 0

\* the decision phase for the traders of one thread: the traders after
\* their createOrder calls and the thread's local_orders
RECURSIVE decideChunk(_, _, _, _, _, _)
decideChunk(traders, chunk, k, current_price, current_time, draw) ==
    IF k > Len(chunk)
    THEN [traders |-> traders, local_orders |-> <<>>]
    ELSE LET i == chunk[k]
         IN  IF skipsDecision(traders[i])
             THEN decideChunk(traders, chunk, k + 1, current_price,
                              current_time, draw)
             ELSE LET c == createOrder(traders[i], current_price,
                                       current_time, drawOf(draw, i))
                      rest == decideChunk(
                                [traders EXCEPT ![i] = c.trader], chunk,
                                k + 1, current_price, current_time, draw)
                      order == Order(0, c.order.trader_id,
                                     IF c.order.is_buy THEN "BUY" ELSE "SELL",
                                     c.order.price, c.order.quantity,
                                     c.order.timestamp)
                  IN  IF c.order.quantity > 0
                      THEN [traders |-> rest.traders,
                            local_orders |-> <<order>> \o rest.local_orders]
                      ELSE rest

\* the parallel region: every thread decides for its chunk, then the
\* threads append their local_orders in the order merge
RECURSIVE decisionPhase(_, _, _, _, _, _)
decisionPhase(traders, merge, k, current_price, current_time, draw) ==
    IF k > Len(merge)
    THEN [traders |-> traders, current_orders |-> <<>>]
    ELSE LET d == decideChunk(traders,
                     threadChunk(merge[k], Len(merge), Cardinality(DOMAIN traders)),
                     1, current_price, current_time, draw)
             rest == decisionPhase(d.traders, merge, k + 1, current_price,
                                   current_time, draw)
         IN  [traders |-> rest.traders,
              current_orders |-> d.local_orders \o rest.current_orders]

\* total quantity of the orders of one side
RECURSIVE sideQuantity(_, _)
sideQuantity(orders, type) ==
    IF orders = <<>> THEN 0
    ELSE (IF Head(orders).type = type THEN Head(orders).quantity ELSE 0)
         + sideQuantity(Tail(orders), type)

\* for (auto &order : current_orders) order_book.addOrder(order)
RECURSIVE submit(_, _)
submit(b, orders) ==
    IF orders = <<>> THEN b
    ELSE submit(addOrder(b, Head(orders)), Tail(orders))

\* faulty variant: the seller is settled before the buyer
settleCalls_seller_first(trade) ==
    << [trade_id |-> trade.trade_id, trader |-> trade.seller_id,
        is_buy |-> FALSE, price |-> trade.price, quantity |-> trade.quantity],
       [trade_id |-> trade.trade_id, trader |-> trade.buyer_id,
        is_buy |-> TRUE, price |-> trade.price, quantity |-> trade.quantity] >>

\* the executeOrder calls one iteration of the loop over executed_trades
\* makes, in their order
settleCalls(trade) ==
    << [trade_id |-> trade.trade_id, trader |-> trade.buyer_id,
        is_buy |-> TRUE, price |-> trade.price, quantity |-> trade.quantity],
       [trade_id |-> trade.trade_id, trader |-> trade.seller_id,
        is_buy |-> FALSE, price |-> trade.price, quantity |-> trade.quantity] >>

\* settlement of one trade: buyer, then seller
settleTrade(traders, trade) ==
    LET c == settleCalls(trade)
        t1 == [traders EXCEPT ![c[1].trader] =
                  executeOrder(@, c[1].is_buy, c[1].price, c[1].quantity)]
    IN  [t1 EXCEPT ![c[2].trader] =
            executeOrder(@, c[2].is_buy, c[2].price, c[2].quantity)]

\* the feedback loop over the trades matchOrders returned
RECURSIVE feedback(_, _)
feedback(traders, trades) ==
    IF trades = <<>> THEN traders
    ELSE feedback(settleTrade(traders, Head(trades)), Tail(trades))

\* static_cast<int>(current_time) % 10 == 0, current_time counted in ticks
\* of 0.1
cleanupDue(current_time) == (current_time \div 10) % 10 = 0

\* the simulations one step() call can lead to: draw gives each trader's
\* random number, noise the market's, merge the order of the thread merge
step(s, draw, noise, merge) ==
    LET current_time == s.current_time + 1
        current_price == getCurrentPrice(s.market)
    IN  UNION {
          UNION {
            { [traders |-> feedback(d.traders, m.new_trades),
               market |-> updatePrice(s.market,
                                      sideQuantity(d.current_orders, "BUY"),
                                      sideQuantity(d.current_orders, "SELL"),
                                      noise),
               order_book |-> IF cleanupDue(current_time)
                              THEN cleanupFilledOrders(m.book) ELSE m.book,
               current_time |-> current_time,
               current_orders |-> d.current_orders,
               executed_trades |-> m.new_trades] : m \in matchOrders(b1) }
            : b1 \in {submit(s.order_book, d.current_orders)} }
          : d \in {decisionPhase(s.traders, merge, 1, current_price,
                                 current_time, draw)} }

\* double getSpread(): 0 when a side is empty
getSpread(b) ==
    IF getBestBid(b) = 0 \/ getBestAsk(b) = 0 THEN 0
    ELSE getBestAsk(b) - getBestBid(b)

\* std::sqrt, rounded down; x lies below bound squared
isqrt(x, bound) == CHOOSE r \in 0..bound : r * r <= x /\ x < (r + 1) * (r + 1)

RECURSIVE squaredDeviations(_, _, _)
\* the sum over history[k..] of (n x price - total) squared, which is n
\* squared times the sum of (price - mean) squared
squaredDeviations(history, total, k) ==
    IF k > Len(history) THEN 0
    ELSE (Len(history) * history[k] - total)
           * (Len(history) * history[k] - total)
         + squaredDeviations(history, total, k + 1)

\* std::sqrt(sq_sum / history.size()) over the price history, in
\* hundredths
historyDeviation(history) ==
    isqrt((100 * squaredDeviations(history, SeqSum(history, 1, Len(history)), 1))
            \div (Len(history) * Len(history) * Len(history)),
          10 * SetMax(Range(history)))

RECURSIVE tradeVolume(_, _)
\* the sum of quantity x price over the trades from k on
tradeVolume(trades, k) ==
    IF k > Len(trades) THEN 0
    ELSE trades[k].quantity * trades[k].price + tradeVolume(trades, k + 1)

RECURSIVE tradePrices(_, _)
\* the sum of the prices of the trades from k on
tradePrices(trades, k) ==
    IF k > Len(trades) THEN 0
    ELSE trades[k].price + tradePrices(trades, k + 1)

\* SimulationStats getStats() const; avg_price rounded down to tenths and
\* price_volatility to hundredths
getStats(s) ==
    LET executed_trades == s.order_book.executed_trades
        history == s.market.price_history
    IN  [simulation_time |-> s.current_time,
         total_trades |-> Len(executed_trades),
         total_volume |-> IF executed_trades = <<>> THEN 0
                          ELSE tradeVolume(executed_trades, 1),
         avg_price |-> IF executed_trades = <<>>
                       THEN getCurrentPrice(s.market)
                       ELSE tradePrices(executed_trades, 1)
                              \div Len(executed_trades),
         price_volatility |-> IF executed_trades = <<>> THEN 0
                              ELSE IF Len(history) > 1
                              THEN historyDeviation(history)
                              ELSE 0,
         pending_buy_orders |-> getBuyOrderCount(s.order_book),
         pending_sell_orders |-> getSellOrderCount(s.order_book),
         best_bid |-> getBestBid(s.order_book),
         best_ask |-> getBestAsk(s.order_book),
         spread |-> getSpread(s.order_book)]

\* faulty variant: the order is matched as soon as it is added
addHumanOrder_matches(s, order) ==
    [s EXCEPT !.order_book =
        (CHOOSE m \in matchOrders(addOrder(@, order)) : TRUE).book]

addHumanOrder(s, order) ==
    [s EXCEPT !.order_book = addOrder(@, order)]

\* the parsed inputs of human_trade_action that reach addHumanOrder
HumanPrices == {InitialPrice + NoiseMax}

HumanQuantities == {20}

\* values of dist(rng) for std::uniform_int_distribution<>(0, 10): 1 buys,
\* 2 sells, and 0 stands for every value that decides nothing
Draws == {0, 1, 2}

----------------------------------------------------------------------------
(* main.cpp: ensemble mode *)

\* bounds of the ensemble specification
MaxReplicas == 4
MaxWorkers == 3
\* bounds of the partition specification
MaxPartReplicas == 10
MaxPartWorkers == 3
\* trades a replica can report
MaxReplicaTrades == 1

base_sims(n, mpi_size) == n \div mpi_size

extra_sims(n, mpi_size) == n % mpi_size

sims_for_this_rank(n, mpi_size, mpi_rank) ==
    base_sims(n, mpi_size)
    + (IF mpi_rank < extra_sims(n, mpi_size) THEN 1 ELSE 0)

\* faulty variant: the extra replicas of the lower ranks are not skipped
start_index_base(n, mpi_size, mpi_rank) ==
    mpi_rank * base_sims(n, mpi_size)

start_index(n, mpi_size, mpi_rank) ==
    mpi_rank * base_sims(n, mpi_size)
    + Min(mpi_rank, extra_sims(n, mpi_size))

\* the SimulationStats fields the reduction reads
Stats(trades, volume) == [total_trades |-> trades, total_volume |-> volume]

\* SimulationSummaryPacket
Packet(index, stats) == [simulation_index |-> index, stats |-> stats]

\* a value-initialised SimulationSummaryPacket, as all_results.resize makes
DefaultPacket == Packet(-1, Stats(0, 0))

\* the summaries runHeadless can return
ReplicaStats ==
    {Stats(t, t * v) : t \in 0..MaxReplicaTrades, v \in {75, 150}}

\* faulty variant: rank i's records are received from slot i on
displs_rank(recv_counts, i) == i

\* faulty variant: every rank's records are received at the start of the buffer
displs_zero(recv_counts, i) == 0

\* displs[i]: the records before rank i's in all_results
RECURSIVE displs(_, _)
displs(recv_counts, i) ==
    IF i = 0 THEN 0 ELSE displs(recv_counts, i - 1) + recv_counts[i - 1]

RECURSIVE total_results(_, _)
\* the sum of recv_counts[0 .. size-1]
total_results(recv_counts, size) ==
    IF size = 0 THEN 0
    ELSE total_results(recv_counts, size - 1) + recv_counts[size - 1]

\* MPI_Gatherv into all_results: slot j (from 0) holds the record of the
\* highest rank whose block covers it, and stays value-initialised when no
\* block does
gatherv(ranks, recv_counts, size) ==
    [j \in 0..(total_results(recv_counts, size) - 1) |->
        LET covering == {r \in 0..(size - 1) :
                            /\ displs(recv_counts, r) <= j
                            /\ j < displs(recv_counts, r) + recv_counts[r]}
        IN  IF covering = {} THEN DefaultPacket
            ELSE LET r == SetMax(covering)
                 IN  ranks[r].local_results[j - displs(recv_counts, r) + 1]]

\* the totals of the first k records of all_results
RECURSIVE reduce(_, _)
reduce(all_results, k) ==
    IF k = 0 THEN Stats(0, 0)
    ELSE LET rest == reduce(all_results, k - 1)
         IN  Stats(rest.total_trades + all_results[k - 1].stats.total_trades,
                   rest.total_volume + all_results[k - 1].stats.total_volume)

\* the ensemble of n replicas on mpi_size ranks, before any replica has run;
\* ran[g] lists the stats replica g returned, once for each time it was run
Ensemble(n, mpi_size) ==
    [n |-> n, mpi_size |-> mpi_size,
     ranks |-> [r \in 0..(mpi_size - 1) |->
                  [pc |-> "run", i |-> 0, local_results |-> <<>>]],
     all_results |-> <<>>,
     summary |-> Stats(0, 0),
     ran |-> [g \in 0..(n - 1) |-> <<>>]]

\* one iteration of the replica loop on rank r, the replica returning stats
runReplica(e, r, stats) ==
    LET global_sim_index == start_index(e.n, e.mpi_size, r) + e.ranks[r].i
    IN  [e EXCEPT
           !.ranks[r].i = @ + 1,
           !.ranks[r].local_results =
               Append(@, Packet(global_sim_index, stats)),
           !.ran = IF global_sim_index \in DOMAIN @
                   THEN [@ EXCEPT ![global_sim_index] = Append(@, stats)]
                   ELSE @]

\* rank r leaves the loop and enters MPI_Gather
enterGather(e, r) == [e EXCEPT !.ranks[r].pc = "gather"]

\* MPI_Gather and MPI_Gatherv complete with every rank's contribution
gather(e) ==
    LET recv_counts == [r \in 0..(e.mpi_size - 1) |->
                           Len(e.ranks[r].local_results)]
    IN  [e EXCEPT
           !.all_results = gatherv(e.ranks, recv_counts, e.mpi_size),
           !.ranks = [r \in 0..(e.mpi_size - 1) |->
                         [e.ranks[r] EXCEPT !.pc = "gathered"]]]

\* rank 0 has computed the grand totals
summarised(e) == e.ranks[0].pc = "done"

\* rank 0 computes the grand totals
summarise(e) ==
    [e EXCEPT
       !.summary = reduce(e.all_results, Cardinality(DOMAIN e.all_results)),
       !.ranks[0].pc = "done"]

----------------------------------------------------------------------------
(* Placeholders of the state the order-book specification leaves alone *)

Idle == [phase |-> "idle"]

----------------------------------------------------------------------------
(* Order-book specification: any sequence of addOrder, matchOrders and     *)
(* cleanupFilledOrders calls, with the orders the callers can construct    *)
(* (positive quantity, nothing filled, PENDING).                           *)

BookInit ==
    /\ book = OrderBook
    /\ ret = [op |-> "init", new_trades |-> <<>>, purged |-> <<>>]
    /\ sim = Idle /\ mkt = Idle /\ ens = Idle /\ runA = Idle /\ runB = Idle
    /\ conc = Idle /\ run = Idle
    /\ agent = Idle /\ clock = Idle

AddOrder ==
    /\ book.next_order_id <= MaxOrderId
    /\ \E t \in {"BUY", "SELL"}, p \in 1..MaxPrice, q \in 1..MaxQty,
          t_id \in BookTraders :
          book' = addOrder(book, Order(0, t_id, t, p, q, 0))
    /\ ret' = [op |-> "addOrder", new_trades |-> <<>>, purged |-> <<>>]
    /\ UNCHANGED <<sim, mkt, ens, runA, runB, conc, run, agent, clock>>

MatchOrders ==
    /\ \E r \in matchOrders(book) :
          /\ book' = r.book
          /\ ret' = [op |-> "matchOrders", new_trades |-> r.new_trades,
                     purged |-> r.purged]
    /\ UNCHANGED <<sim, mkt, ens, runA, runB, conc, run, agent, clock>>

CleanupFilledOrders ==
    /\ book' = cleanupFilledOrders(book)
    /\ ret' = [op |-> "cleanupFilledOrders", new_trades |-> <<>>,
               purged |-> filledInBook(book)]
    /\ UNCHANGED <<sim, mkt, ens, runA, runB, conc, run, agent, clock>>

BookNext == AddOrder \/ MatchOrders \/ CleanupFilledOrders

SpecBook == BookInit /\ [][BookNext]_vars

----------------------------------------------------------------------------
(* Simulation specification: the interactive run, in which step() calls    *)
(* interleave with the orders of the human trader.                         *)

SimInit ==
    /\ sim = TradingSimulation(NumTraders, InitialPrice, InitialCash)
    /\ book = Idle /\ ret = Idle /\ mkt = Idle /\ ens = Idle
    /\ runA = Idle /\ runB = Idle
    /\ conc = Idle /\ run = Idle
    /\ agent = Idle /\ clock = Idle

Step ==
    /\ sim.current_time < MaxTicks
    /\ \E draw \in [randomTraders(sim.traders) -> Draws], noise \in SimNoise,
          merge \in mergeOrders :
          \E s2 \in step(sim, draw, noise, merge) :
             /\ s2.order_book.next_order_id <= MaxSimOrderId + 1
             /\ sim' = s2
    /\ UNCHANGED <<book, ret, mkt, ens, runA, runB, conc, run, agent, clock>>

AddHumanOrder ==
    /\ sim.order_book.next_order_id <= MaxSimOrderId
    /\ \E t \in {"BUY", "SELL"}, p \in HumanPrices, q \in HumanQuantities :
          sim' = addHumanOrder(sim, Order(0, 0, t, p, q, sim.current_time))
    /\ UNCHANGED <<book, ret, mkt, ens, runA, runB, conc, run, agent, clock>>

SimNext == Step \/ AddHumanOrder

SpecSim == SimInit /\ [][SimNext]_vars

----------------------------------------------------------------------------
(* Market specification: updatePrice calls with any flows and noise *)

MaxUpdates == 3

Flows == {0, 10, 20}

MarketInit ==
    /\ mkt = Market(InitialPrice)
    /\ book = Idle /\ ret = Idle /\ sim = Idle /\ ens = Idle
    /\ runA = Idle /\ runB = Idle
    /\ conc = Idle /\ run = Idle
    /\ agent = Idle /\ clock = Idle

UpdatePrice ==
    /\ Len(mkt.price_history) <= MaxUpdates
    /\ \E buy \in Flows, sell \in Flows, noise \in MarketNoise :
          mkt' = updatePrice(mkt, buy, sell, noise)
    /\ UNCHANGED <<book, ret, sim, ens, runA, runB, conc, run, agent, clock>>

MarketNext == UpdatePrice

SpecMarket == MarketInit /\ [][MarketNext]_vars

----------------------------------------------------------------------------
(* Two-run specification: two headless simulations built from the same     *)
(* configuration and seed, stepped together. The traders' generators are   *)
(* seeded alike, so both runs see the same draws; the market's generator   *)
(* is seeded from std::random_device and the threads merge in any order,   *)
(* so noise and merge order are chosen per run.                            *)

TwoRunInit ==
    /\ runA = TradingSimulation(NumTraders, InitialPrice, InitialCash)
    /\ runB = TradingSimulation(NumTraders, InitialPrice, InitialCash)
    /\ book = Idle /\ ret = Idle /\ sim = Idle /\ mkt = Idle /\ ens = Idle
    /\ conc = Idle /\ run = Idle
    /\ agent = Idle /\ clock = Idle

StepBoth ==
    /\ runA.current_time < MaxTicks
    /\ \E draw \in [randomTraders(runA.traders) -> Draws],
          noiseA \in SimNoise, noiseB \in SimNoise,
          mergeA \in mergeOrders, mergeB \in mergeOrders :
          /\ runA' \in step(runA, draw, noiseA, mergeA)
          /\ runB' \in step(runB, draw, noiseB, mergeB)
    /\ UNCHANGED <<book, ret, sim, mkt, ens, conc, run, agent, clock>>

TwoRunNext == StepBoth

SpecTwoRuns == TwoRunInit /\ [][TwoRunNext]_vars

----------------------------------------------------------------------------
(* Ensemble specification: the ranks run their replicas in any             *)
(* interleaving, then gather and reduce.                                   *)

EnsembleInit ==
    /\ \E n \in 1..MaxReplicas, w \in 1..MaxWorkers : ens = Ensemble(n, w)
    /\ book = Idle /\ ret = Idle /\ sim = Idle /\ mkt = Idle
    /\ runA = Idle /\ runB = Idle
    /\ conc = Idle /\ run = Idle
    /\ agent = Idle /\ clock = Idle

ranksOf(e) == 0..(e.mpi_size - 1)

RunReplicaFrom(outcomes) ==
    /\ \E r \in ranksOf(ens), stats \in outcomes :
          /\ ens.ranks[r].pc = "run"
          /\ ens.ranks[r].i < sims_for_this_rank(ens.n, ens.mpi_size, r)
          /\ ens' = runReplica(ens, r, stats)
    /\ UNCHANGED <<book, ret, sim, mkt, runA, runB, conc, run, agent, clock>>

RunReplica == RunReplicaFrom(ReplicaStats)

EnterGather ==
    /\ \E r \in ranksOf(ens) :
          /\ ens.ranks[r].pc = "run"
          /\ ~(ens.ranks[r].i < sims_for_this_rank(ens.n, ens.mpi_size, r))
          /\ ens' = enterGather(ens, r)
    /\ UNCHANGED <<book, ret, sim, mkt, runA, runB, conc, run, agent, clock>>

\* faulty variant: the collective completes on rank 0 without the others
Gather_partial ==
    /\ ens.ranks[0].pc = "gather"
    /\ ens' = gather(ens)
    /\ UNCHANGED <<book, ret, sim, mkt, runA, runB, conc, run, agent, clock>>

Gather ==
    /\ \A r \in ranksOf(ens) : ens.ranks[r].pc = "gather"
    /\ ens' = gather(ens)
    /\ UNCHANGED <<book, ret, sim, mkt, runA, runB, conc, run, agent, clock>>

Summarise ==
    /\ ens.ranks[0].pc = "gathered"
    /\ ens' = summarise(ens)
    /\ UNCHANGED <<book, ret, sim, mkt, runA, runB, conc, run, agent, clock>>

EnsembleNext == RunReplica \/ EnterGather \/ Gather \/ Summarise

SpecEnsemble == EnsembleInit /\ [][EnsembleNext]_vars

----------------------------------------------------------------------------
(* Partition specification: the same ranks over larger ensembles, every    *)
(* replica returning the same stats.                                       *)

PartitionInit ==
    /\ \E n \in 1..MaxPartReplicas, w \in 1..MaxPartWorkers :
          ens = Ensemble(n, w)
    /\ book = Idle /\ ret = Idle /\ sim = Idle /\ mkt = Idle
    /\ runA = Idle /\ runB = Idle
    /\ conc = Idle /\ run = Idle
    /\ agent = Idle /\ clock = Idle

RunQuietReplica == RunReplicaFrom({Stats(0, 0)})

PartitionNext == RunQuietReplica \/ EnterGather \/ Gather \/ Summarise

SpecPartition == PartitionInit /\ [][PartitionNext]_vars

----------------------------------------------------------------------------
(* Properties of the order book *)

bothSides(b) == DOMAIN b.buy_orders # {} /\ DOMAIN b.sell_orders # {}

\* C1: after matchOrders returns, one side of the book is empty or
\* best_bid < best_ask.
C1_BookValid ==
    ret.op = "matchOrders" =>
        \/ DOMAIN book.buy_orders = {}
        \/ DOMAIN book.sell_orders = {}
        \/ SetMax(DOMAIN book.buy_orders) < SetMin(DOMAIN book.sell_orders)

\* a matchOrders call that traded and left orders on both sides
C1_Witness ==
    /\ ret.op = "matchOrders"
    /\ ret.new_trades # <<>>
    /\ bothSides(book)

fillOk(o) ==
    /\ 0 <= o.filled_quantity
    /\ o.filled_quantity <= o.quantity
    /\ (o.status = "FILLED" <=> o.filled_quantity = o.quantity)

\* C2: every order of the book, and every order at the moment matchOrders
\* erases it, has 0 <= filled_quantity <= quantity and is FILLED exactly
\* when filled_quantity = quantity.
C2_FillInvariant ==
    \A o \in bookOrders(book) \cup Range(ret.purged) : fillOk(o)

\* a partially filled order rests in the book next to a just-filled one
C2_Witness ==
    /\ \E o \in bookOrders(book) :
          o.status = "PARTIALLY_FILLED" /\ o.filled_quantity > 0
    /\ \E o \in Range(ret.purged) : o.status = "FILLED"

\* a book of exactly one buy and one sell order with ps <= pb and qs < qb
oneBuyOneSell(b) ==
    /\ Cardinality(DOMAIN b.buy_orders) = 1
    /\ Cardinality(DOMAIN b.sell_orders) = 1
    /\ LET pb == SetMax(DOMAIN b.buy_orders)
           ps == SetMin(DOMAIN b.sell_orders)
       IN  /\ Len(b.buy_orders[pb]) = 1
           /\ Len(b.sell_orders[ps]) = 1
           /\ ps <= pb
           /\ b.sell_orders[ps][1].quantity < b.buy_orders[pb][1].quantity

theBuy(b) == b.buy_orders[SetMax(DOMAIN b.buy_orders)][1]

theSell(b) == b.sell_orders[SetMin(DOMAIN b.sell_orders)][1]

\* what C10 states of the matchOrders call that takes book b to book b2
partialFillOutcome(b, b2, r) ==
    LET buy == theBuy(b)
        sell == theSell(b)
    IN  /\ Len(r.new_trades) = 1
        /\ r.new_trades[1].price = sell.price
        /\ r.new_trades[1].quantity = sell.quantity
        /\ r.new_trades[1].buy_order_id = buy.order_id
        /\ r.new_trades[1].sell_order_id = sell.order_id
        /\ DOMAIN b2.sell_orders = {}
        /\ DOMAIN b2.buy_orders = {buy.price}
        /\ Len(b2.buy_orders[buy.price]) = 1
        /\ b2.buy_orders[buy.price][1] =
              [buy EXCEPT !.status = "PARTIALLY_FILLED",
                          !.filled_quantity = sell.quantity]
        /\ Len(r.purged) = 1
        /\ r.purged[1] = [sell EXCEPT !.status = "FILLED",
                                      !.filled_quantity = sell.quantity]

\* C10 as stated: on any book of one buy (pb, qb) and one sell (ps <= pb,
\* qs < qb), matchOrders returns the single trade ps x qs, leaves the buy
\* order PARTIALLY_FILLED with filled_quantity = qs and purges the sell
\* order as FILLED.
C10_Original ==
    [][(ret'.op = "matchOrders" /\ oneBuyOneSell(book))
          => partialFillOutcome(book, book', ret')]_vars

\* C10 amended: the same, for a buy and a sell order of which no part has
\* been filled before the call.
C10_PartialFill ==
    [][(/\ ret'.op = "matchOrders"
        /\ oneBuyOneSell(book)
        /\ theBuy(book).filled_quantity = 0
        /\ theSell(book).filled_quantity = 0)
          => partialFillOutcome(book, book', ret')]_vars

\* matchOrders has just run on one unfilled buy and one smaller unfilled sell
C10_Witness ==
    /\ ret.op = "matchOrders"
    /\ Len(ret.new_trades) = 1
    /\ Len(ret.purged) = 1
    /\ ret.purged[1].type = "SELL"
    /\ book.next_order_id = 3
    /\ \E o \in bookOrders(book) :
          /\ o.type = "BUY" /\ o.status = "PARTIALLY_FILLED"
          /\ o.filled_quantity = ret.new_trades[1].quantity
          /\ o.price > ret.new_trades[1].price

----------------------------------------------------------------------------
(* Properties of the simulation step *)

\* what the trades of a list move for trader t: cash paid as buyer, cash
\* received as seller, shares bought, shares sold
RECURSIVE paid(_, _)
paid(trades, t) ==
    IF trades = <<>> THEN 0
    ELSE (IF Head(trades).buyer_id = t
          THEN Head(trades).price * Head(trades).quantity ELSE 0)
         + paid(Tail(trades), t)

RECURSIVE received(_, _)
received(trades, t) ==
    IF trades = <<>> THEN 0
    ELSE (IF Head(trades).seller_id = t
          THEN Head(trades).price * Head(trades).quantity ELSE 0)
         + received(Tail(trades), t)

RECURSIVE bought(_, _)
bought(trades, t) ==
    IF trades = <<>> THEN 0
    ELSE (IF Head(trades).buyer_id = t THEN Head(trades).quantity ELSE 0)
         + bought(Tail(trades), t)

RECURSIVE sold(_, _)
sold(trades, t) ==
    IF trades = <<>> THEN 0
    ELSE (IF Head(trades).seller_id = t THEN Head(trades).quantity ELSE 0)
         + sold(Tail(trades), t)

RECURSIVE totalHoldings(_, _)
totalHoldings(traders, n) ==
    IF n = 0 THEN 0 ELSE traders[n - 1].holdings + totalHoldings(traders, n - 1)

initialTotalHoldings == initial_holdings * (NumTraders \div 2)

\* C3: over a step, every trade matchOrders returned takes price x quantity
\* from its buyer's cash and adds it to its seller's cash, and adds quantity
\* to the buyer's holdings and takes it from the seller's.
C3_Conservation ==
    [][sim'.current_time # sim.current_time =>
          \A t \in DOMAIN sim.traders :
             /\ sim'.traders[t].cash =
                   sim.traders[t].cash - paid(sim'.executed_trades, t)
                                       + received(sim'.executed_trades, t)
             /\ sim'.traders[t].holdings =
                   sim.traders[t].holdings + bought(sim'.executed_trades, t)
                                           - sold(sim'.executed_trades, t)]_vars

\* C4: the sum of all traders' holdings stays at its initial value.
C4_SharesConserved ==
    totalHoldings(sim.traders, NumTraders) = initialTotalHoldings

\* C5: no trader's cash and no trader's holdings are ever negative.
C5_NonNegative ==
    \A t \in DOMAIN sim.traders :
        sim.traders[t].cash >= 0 /\ sim.traders[t].holdings >= 0

\* a step has returned a trade of which one side was refused by the guard
\* of executeTrade
C5_Witness ==
    /\ \E i \in DOMAIN sim.executed_trades :
          sim.executed_trades[i].buyer_id # sim.executed_trades[i].seller_id
    /\ totalHoldings(sim.traders, NumTraders) < initialTotalHoldings

----------------------------------------------------------------------------
(* Properties of two runs, the price model and the ensemble *)

\* C6: two runs built alike and stepped the same number of ticks generate
\* the same orders and execute the same trades in every tick.
C6_Determinism ==
    /\ runA.current_orders = runB.current_orders
    /\ runA.executed_trades = runB.executed_trades

\* C7: the price stays within 0.2 x base_price and 3.0 x base_price.
C7_PriceBounds ==
    /\ 2 * mkt.base_price <= 10 * mkt.current_price
    /\ mkt.current_price <= 3 * mkt.base_price

\* updatePrice calls have driven the price to the upper and to the lower
\* bound
C7_Witness ==
    /\ \E i \in DOMAIN mkt.price_history :
          mkt.price_history[i] = 3 * mkt.base_price
    /\ \E i \in DOMAIN mkt.price_history :
          10 * mkt.price_history[i] = 2 * mkt.base_price

RECURSIVE sumTrades(_)
sumTrades(statsSeq) ==
    IF statsSeq = <<>> THEN 0
    ELSE Head(statsSeq).total_trades + sumTrades(Tail(statsSeq))

RECURSIVE sumVolume(_)
sumVolume(statsSeq) ==
    IF statsSeq = <<>> THEN 0
    ELSE Head(statsSeq).total_volume + sumVolume(Tail(statsSeq))

\* the trades and the volume the replicas 0 .. n-1 reported themselves
RECURSIVE ownTrades(_, _)
ownTrades(ran, n) ==
    IF n = 0 THEN 0 ELSE sumTrades(ran[n - 1]) + ownTrades(ran, n - 1)

RECURSIVE ownVolume(_, _)
ownVolume(ran, n) ==
    IF n = 0 THEN 0 ELSE sumVolume(ran[n - 1]) + ownVolume(ran, n - 1)

\* C8: the coordinator's grand totals are the sums of the replicas' own
\* total_trades and total_volume.
C8_GrandTotals ==
    summarised(ens) =>
        /\ ens.summary.total_trades = ownTrades(ens.ran, ens.n)
        /\ ens.summary.total_volume = ownVolume(ens.ran, ens.n)

\* a summary over more ranks than replicas, with trades to add up
C8_Witness ==
    /\ summarised(ens)
    /\ ens.mpi_size > ens.n
    /\ ens.n > 1
    /\ ens.summary.total_trades > 1

indicesOf(e, r) ==
    {e.ranks[r].local_results[k].simulation_index :
        k \in DOMAIN e.ranks[r].local_results}

loopsDone(e) == \A r \in ranksOf(e) : e.ranks[r].pc # "run"

\* C9: rank r runs N/W replicas, one more when r < N % W, with the
\* contiguous indices from r*(N/W) + min(r, N % W); the ranks' index ranges
\* are pairwise disjoint and cover 0 .. N-1 exactly once.
C9_Partition ==
    LET n == ens.n
        w == ens.mpi_size
    IN  /\ \A r \in ranksOf(ens) :
              /\ \A k \in DOMAIN ens.ranks[r].local_results :
                    ens.ranks[r].local_results[k].simulation_index =
                        r * (n \div w) + Min(r, n % w) + k - 1
              /\ ens.ranks[r].pc # "run" =>
                    Len(ens.ranks[r].local_results) =
                        (n \div w) + (IF r < n % w THEN 1 ELSE 0)
        /\ loopsDone(ens) =>
              /\ \A r1 \in ranksOf(ens), r2 \in ranksOf(ens) :
                    r1 # r2 => indicesOf(ens, r1) \cap indicesOf(ens, r2) = {}
              /\ UNION {indicesOf(ens, r) : r \in ranksOf(ens)} = 0..(n - 1)
              /\ \A g \in 0..(n - 1) : Len(ens.ran[g]) = 1

\* 10 replicas on 3 ranks have been run as 4, 3 and 3
C9_Witness ==
    /\ ens.n = 10 /\ ens.mpi_size = 3
    /\ loopsDone(ens)
    /\ Len(ens.ranks[0].local_results) = 4
    /\ Len(ens.ranks[1].local_results) = 3
    /\ Len(ens.ranks[2].local_results) = 3

----------------------------------------------------------------------------
(* Properties of the trades matchOrders returns *)

\* the orders the last matchOrders call left in the book or erased as filled
ordersAfterMatch == bookOrders(book) \cup Range(ret.purged)

\* C11: every trade matchOrders returns is priced at the limit price of the
\* sell order it references.
C11_SellPrice ==
    ret.op = "matchOrders" =>
        \A i \in DOMAIN ret.new_trades :
            \E o \in ordersAfterMatch :
                /\ o.order_id = ret.new_trades[i].sell_order_id
                /\ o.type = "SELL"
                /\ o.price = ret.new_trades[i].price

\* a trade between a buy order that was added first and a sell order added
\* later at a lower price
C11_Witness ==
    /\ ret.op = "matchOrders"
    /\ \E i \in DOMAIN ret.new_trades :
          \E o \in ordersAfterMatch :
              /\ o.order_id = ret.new_trades[i].buy_order_id
              /\ o.type = "BUY"
              /\ o.order_id < ret.new_trades[i].sell_order_id
              /\ o.price > ret.new_trades[i].price

----------------------------------------------------------------------------
(* Order-book specification for any caller: addOrder takes whatever order  *)
(* it is given, so quantities of zero and below are added too, and the     *)
(* depth accessors are called between the mutations.                       *)

\* the quantities of the orders added
AnyQuantities == {-1, 0, 1, 2}

\* the prices of the orders added
AnyPrices == {1, 2}

\* the levels arguments of the depth calls (5 is the default)
DepthLevels == {1, 5}

AddAnyOrder ==
    /\ book.next_order_id <= MaxOrderId
    /\ \E t \in {"BUY", "SELL"}, p \in AnyPrices, q \in AnyQuantities :
          book' = addOrder(book, Order(0, 0, t, p, q, 0))
    /\ ret' = [op |-> "addOrder", new_trades |-> <<>>, purged |-> <<>>]
    /\ UNCHANGED <<sim, mkt, ens, runA, runB, conc, run, agent, clock>>

GetBuyDepth ==
    /\ \E levels \in DepthLevels :
          ret' = [op |-> "getBuyDepth", new_trades |-> <<>>, purged |-> <<>>,
                  levels |-> levels, depth |-> getBuyDepth(book, levels)]
    /\ UNCHANGED <<book, sim, mkt, ens, runA, runB, conc, run, agent, clock>>

GetSellDepth ==
    /\ \E levels \in DepthLevels :
          ret' = [op |-> "getSellDepth", new_trades |-> <<>>, purged |-> <<>>,
                  levels |-> levels, depth |-> getSellDepth(book, levels)]
    /\ UNCHANGED <<book, sim, mkt, ens, runA, runB, conc, run, agent, clock>>

BookAnyNext ==
    \/ AddAnyOrder
    \/ MatchOrders
    \/ CleanupFilledOrders
    \/ GetBuyDepth
    \/ GetSellDepth

SpecBookAny == BookInit /\ [][BookAnyNext]_vars

----------------------------------------------------------------------------
(* Properties of the order book under any caller *)

\* the quantity the first k - 1 trades gave to order id on the given side
RECURSIVE filledBefore(_, _, _, _)
filledBefore(trades, k, id, is_buy) ==
    IF k <= 1 THEN 0
    ELSE filledBefore(trades, k - 1, id, is_buy)
         + (IF (IF is_buy THEN trades[k - 1].buy_order_id
                ELSE trades[k - 1].sell_order_id) = id
            THEN trades[k - 1].quantity ELSE 0)

\* C12: every trade of a matchOrders call has a positive quantity, equal to
\* the smaller of what its buy order and its sell order had left just
\* before the trade, also on books that hold orders of quantity <= 0.
C12_TradeQuantity ==
    [][ret'.op = "matchOrders" =>
          \A k \in DOMAIN ret'.new_trades :
             LET t == ret'.new_trades[k]
             IN  /\ t.quantity > 0
                 /\ \E b \in bookOrders(book), s \in bookOrders(book) :
                       /\ b.type = "BUY" /\ b.order_id = t.buy_order_id
                       /\ s.type = "SELL" /\ s.order_id = t.sell_order_id
                       /\ t.quantity =
                             Min(getRemainingQuantity(b)
                                   - filledBefore(ret'.new_trades, k,
                                                  b.order_id, TRUE),
                                 getRemainingQuantity(s)
                                   - filledBefore(ret'.new_trades, k,
                                                  s.order_id, FALSE))]_vars

\* a matchOrders call that returned a trade on levels holding an order of
\* quantity <= 0 and an order it filled only in part
C12_Witness ==
    /\ ret.op = "matchOrders"
    /\ ret.new_trades # <<>>
    /\ \E o \in Range(ret.purged) : o.quantity <= 0
    /\ \E o \in bookOrders(book) : o.status = "PARTIALLY_FILLED"

\* the orders of a level that are not completely filled
unfilledOf(list) == SelectSeq(list, LAMBDA o : o.filled_quantity < o.quantity)

\* side after is side before without its filled orders and without the
\* levels that leaves empty
cleanedSide(before, after) ==
    /\ DOMAIN after = {p \in DOMAIN before : unfilledOf(before[p]) # <<>>}
    /\ \A p \in DOMAIN after : after[p] = unfilledOf(before[p])

\* C18: cleanupFilledOrders removes exactly the filled orders and the
\* levels left empty, keeps every other order, the trade history and the
\* id counters, and a second call changes nothing.
C18_CleanupIdempotent ==
    [][ret'.op = "cleanupFilledOrders" =>
          /\ cleanedSide(book.buy_orders, book'.buy_orders)
          /\ cleanedSide(book.sell_orders, book'.sell_orders)
          /\ book'.executed_trades = book.executed_trades
          /\ book'.next_order_id = book.next_order_id
          /\ book'.next_trade_id = book.next_trade_id
          /\ cleanupFilledOrders(book') = book']_vars

\* a cleanupFilledOrders call that erased an order and kept another, after
\* a trade
C18_Witness ==
    /\ ret.op = "cleanupFilledOrders"
    /\ ret.purged # <<>>
    /\ bookOrders(book) # {}
    /\ book.executed_trades # <<>>

\* the sum of quantity - filled_quantity over the orders of a level
RECURSIVE levelRemaining(_)
levelRemaining(list) ==
    IF list = <<>> THEN 0
    ELSE (Head(list).quantity - Head(list).filled_quantity)
         + levelRemaining(Tail(list))

\* depth lists the min(levels, number of levels) best levels of side m,
\* best first, each with the remaining quantity of its orders
depthOk(depth, m, levels, descending) ==
    /\ Len(depth) = Min(levels, Cardinality(DOMAIN m))
    /\ \A i \in DOMAIN depth :
          /\ depth[i].price \in DOMAIN m
          /\ depth[i].total_quantity = levelRemaining(m[depth[i].price])
          /\ Cardinality({p \in DOMAIN m :
                            IF descending THEN p > depth[i].price
                            ELSE p < depth[i].price}) = i - 1

\* C19: getBuyDepth(n) returns the min(n, number of buy levels) highest buy
\* levels in descending price order, getSellDepth(n) the lowest sell levels
\* in ascending order, each with the sum of quantity - filled_quantity of its
\* orders.
C19_Depth ==
    /\ ret.op = "getBuyDepth" =>
          depthOk(ret.depth, book.buy_orders, ret.levels, TRUE)
    /\ ret.op = "getSellDepth" =>
          depthOk(ret.depth, book.sell_orders, ret.levels, FALSE)

\* a getBuyDepth(1) call on a book with two buy levels, of which one holds
\* a partially filled order
C19_Witness ==
    /\ ret.op = "getBuyDepth"
    /\ ret.levels = 1
    /\ Cardinality(DOMAIN book.buy_orders) = 2
    /\ \E o \in bookOrders(book) : o.status = "PARTIALLY_FILLED"

----------------------------------------------------------------------------
(* Concurrent callers of one order book: every thread calls the public     *)
(* operations in any order. addOrder, matchOrders and cleanupFilledOrders  *)
(* construct a std::lock_guard on book_mutex as their first statement; the *)
(* const accessors construct none.                                         *)

\* threads that call the book
MaxConcThreads == 2

ConcThreads == 1..MaxConcThreads

\* the operations that lock book_mutex
Mutations == {"addOrder", "matchOrders", "cleanupFilledOrders"}

\* the operations that do not
Reads == {"getBuyDepth", "getSellDepth", "getBestBid", "getBestAsk",
          "getSpread", "getBuyOrderCount", "getSellOrderCount",
          "getExecutedTrades"}

\* the order_id fields of the orders the callers pass to addOrder
SuppliedIds == {0, 1}

\* std::lock_guard<std::mutex> lock(book_mutex): the constructor returns
\* once no thread owns the mutex
lock_guard(c, t) == [c EXCEPT !.mutex = t, !.pc[t] = "locked"]

\* the destructor of the lock_guard at the end of the operation
unlock_guard(c, t) == [c EXCEPT !.mutex = 0, !.pc[t] = "idle"]

\* addOrder calls that have not returned yet
pendingAdds(c) ==
    Cardinality({t \in ConcThreads :
                    c.pc[t] \in {"lock", "locked"} /\ c.op[t] = "addOrder"})

ConcInit ==
    /\ book = OrderBook
    /\ conc = [mutex |-> 0,
               pc |-> [t \in ConcThreads |-> "idle"],
               op |-> [t \in ConcThreads |-> "none"],
               returned |-> <<>>]
    /\ ret = Idle /\ sim = Idle /\ mkt = Idle /\ ens = Idle
    /\ runA = Idle /\ runB = Idle /\ run = Idle
    /\ agent = Idle /\ clock = Idle

\* thread t enters a mutation and reaches the lock_guard
CallMutation(t) ==
    /\ conc.pc[t] = "idle"
    /\ \E op \in Mutations :
          /\ op = "addOrder" =>
                book.next_order_id + pendingAdds(conc) <= MaxOrderId
          /\ conc' = [conc EXCEPT !.pc[t] = "lock", !.op[t] = op]
    /\ UNCHANGED <<book, ret, sim, mkt, ens, runA, runB, run, agent, clock>>

\* the lock_guard of thread t acquires book_mutex
Lock(t) ==
    /\ conc.pc[t] = "lock"
    /\ conc.mutex = 0
    /\ conc' = lock_guard(conc, t)
    /\ UNCHANGED <<book, ret, sim, mkt, ens, runA, runB, run, agent, clock>>

\* thread t runs the body of its mutation and returns, releasing the mutex
Mutate(t) ==
    /\ conc.pc[t] = "locked"
    /\ \/ /\ conc.op[t] = "addOrder"
          /\ \E type \in {"BUY", "SELL"}, id \in SuppliedIds :
                book' = addOrder(book, Order(id, 0, type, 1, 1, 0))
          /\ conc' = [unlock_guard(conc, t) EXCEPT
                         !.returned = Append(@, book'.next_order_id - 1)]
       \/ /\ conc.op[t] = "matchOrders"
          /\ \E r \in matchOrders(book) : book' = r.book
          /\ conc' = unlock_guard(conc, t)
       \/ /\ conc.op[t] = "cleanupFilledOrders"
          /\ book' = cleanupFilledOrders(book)
          /\ conc' = unlock_guard(conc, t)
    /\ UNCHANGED <<ret, sim, mkt, ens, runA, runB, run, agent, clock>>

\* thread t enters a const accessor: it starts reading at once
CallRead(t) ==
    /\ conc.pc[t] = "idle"
    /\ \E op \in Reads : conc' = [conc EXCEPT !.pc[t] = "read", !.op[t] = op]
    /\ UNCHANGED <<book, ret, sim, mkt, ens, runA, runB, run, agent, clock>>

\* the accessor of thread t returns
ReadReturn(t) ==
    /\ conc.pc[t] = "read"
    /\ conc' = [conc EXCEPT !.pc[t] = "idle"]
    /\ UNCHANGED <<book, ret, sim, mkt, ens, runA, runB, run, agent, clock>>

ConcNext ==
    \E t \in ConcThreads :
        \/ CallMutation(t)
        \/ Lock(t)
        \/ Mutate(t)
        \/ CallRead(t)
        \/ ReadReturn(t)

SpecThreads == ConcInit /\ [][ConcNext]_vars

----------------------------------------------------------------------------
(* Properties of the book under concurrent callers *)

RECURSIVE strictlyIncreasing(_)
strictlyIncreasing(s) ==
    Len(s) < 2 \/ (s[1] < s[2] /\ strictlyIncreasing(Tail(s)))

\* C13: the ids addOrder assigns increase strictly from call to call and no
\* two orders of the book share an id, whatever id the callers passed and
\* however the calls of the threads interleave.
C13_UniqueIds ==
    /\ strictlyIncreasing(conc.returned)
    /\ Cardinality({o.order_id : o \in bookOrders(book)})
          = getBuyOrderCount(book) + getSellOrderCount(book)
    /\ \A o \in bookOrders(book) : o.order_id \in Range(conc.returned)

\* the book holds an order while one thread is inside addOrder and another
\* waits for the mutex in its own addOrder
C13_Witness ==
    /\ Len(conc.returned) >= 1
    /\ bookOrders(book) # {}
    /\ \E t \in ConcThreads, u \in ConcThreads :
          /\ conc.pc[t] = "locked" /\ conc.op[t] = "addOrder"
          /\ conc.pc[u] = "lock" /\ conc.op[u] = "addOrder"

\* C17: no two mutations run at the same time, and no read runs while a
\* mutation is in progress.
C17_Exclusion ==
    \A t \in ConcThreads, u \in ConcThreads :
        (t # u /\ conc.pc[t] = "locked") =>
            conc.pc[u] \notin {"locked", "read"}

----------------------------------------------------------------------------
(* One crowded price level: orders of quantity 1 at one price, so that the *)
(* buy list of the level grows past the size at which the loop over it     *)
(* runs as a parallel loop.                                                *)

\* orders added to the level
MaxLevelOrders == 12

AddLevelOrder ==
    /\ book.next_order_id <= MaxLevelOrders
    /\ \E t \in {"BUY", "SELL"} :
          book' = addOrder(book, Order(0, 0, t, 1, 1, 0))
    /\ ret' = [op |-> "addOrder", new_trades |-> <<>>, purged |-> <<>>]
    /\ UNCHANGED <<sim, mkt, ens, runA, runB, conc, run, agent, clock>>

PriorityNext == AddLevelOrder \/ MatchOrders

SpecPriority == BookInit /\ [][PriorityNext]_vars

\* order o received a fill in the last matchOrders call
filledInPass(o) ==
    \E i \in DOMAIN ret.new_trades :
        IF o.type = "BUY" THEN ret.new_trades[i].buy_order_id = o.order_id
        ELSE ret.new_trades[i].sell_order_id = o.order_id

\* C14: after a matchOrders call, an order that the call left with an
\* unfilled remainder has no later-added order of its level and side that
\* received a fill in that call.
C14_PriceTime ==
    ret.op = "matchOrders" =>
        \A o1 \in bookOrders(book), o2 \in ordersAfterMatch :
            (/\ ~isFilled(o1)
             /\ o1.type = o2.type
             /\ o1.price = o2.price
             /\ o1.order_id < o2.order_id) => ~filledInPass(o2)

----------------------------------------------------------------------------
(* Properties of the submission phase and of the human trader's orders *)

\* C15: the orders a step generated were added to the book in ascending
\* order of their agents' ids.
C15_AgentIdOrder ==
    \A i \in DOMAIN sim.current_orders, j \in DOMAIN sim.current_orders :
        i < j => sim.current_orders[i].trader_id
                    < sim.current_orders[j].trader_id

\* trader 0 after the settlement calls of the trades it is a party of:
\* for each trade the buyer's call, then the seller's
RECURSIVE settledHuman(_, _)
settledHuman(tr, trades) ==
    IF trades = <<>> THEN tr
    ELSE LET t == Head(trades)
             b == IF t.buyer_id = 0
                  THEN executeOrder(tr, TRUE, t.price, t.quantity) ELSE tr
             c == IF t.seller_id = 0
                  THEN executeOrder(b, FALSE, t.price, t.quantity) ELSE b
         IN  settledHuman(c, Tail(trades))

\* C16: addHumanOrder only adds the order to the book (no decision, no
\* trade, no settlement); a step matches the orders of trader 0 like any
\* other, leaves no crossed book, names trader 0 as the party of their
\* trades and settles them on trader 0.
C16_HumanOrder ==
    [][/\ sim'.current_time = sim.current_time =>
             /\ sim'.traders = sim.traders
             /\ sim'.market = sim.market
             /\ sim'.executed_trades = sim.executed_trades
             /\ sim'.current_orders = sim.current_orders
             /\ sim'.order_book.executed_trades
                   = sim.order_book.executed_trades
             /\ sim'.order_book.next_trade_id = sim.order_book.next_trade_id
             /\ sim'.order_book.next_order_id
                   = sim.order_book.next_order_id + 1
             /\ \E o \in bookOrders(sim'.order_book) :
                   /\ o.order_id = sim.order_book.next_order_id
                   /\ o.trader_id = 0
                   /\ o.filled_quantity = 0 /\ o.status = "PENDING"
                   /\ bookOrders(sim'.order_book) \ {o}
                         = bookOrders(sim.order_book)
       /\ sim'.current_time # sim.current_time =>
             /\ \A i \in DOMAIN sim'.executed_trades :
                   \A o \in bookOrders(sim.order_book) :
                      LET t == sim'.executed_trades[i]
                      IN  /\ (o.trader_id = 0 /\ o.order_id = t.buy_order_id)
                                => t.buyer_id = 0
                          /\ (o.trader_id = 0 /\ o.order_id = t.sell_order_id)
                                => t.seller_id = 0
             /\ sim'.traders[0].cash
                   = settledHuman(sim.traders[0], sim'.executed_trades).cash
             /\ sim'.traders[0].holdings
                   = settledHuman(sim.traders[0], sim'.executed_trades).holdings
             /\ \/ DOMAIN sim'.order_book.buy_orders = {}
                \/ DOMAIN sim'.order_book.sell_orders = {}
                \/ getBestBid(sim'.order_book) < getBestAsk(sim'.order_book)
      ]_vars

\* a step has matched an order of the human trader with an agent's order
\* and the settlement has changed trader 0
C16_Witness ==
    /\ \E i \in DOMAIN sim.executed_trades :
          \/ /\ sim.executed_trades[i].buyer_id = 0
             /\ sim.executed_trades[i].seller_id # 0
          \/ /\ sim.executed_trades[i].seller_id = 0
             /\ sim.executed_trades[i].buyer_id # 0
    /\ sim.traders[0].trades_executed > 0

----------------------------------------------------------------------------
(* step() statement by statement: sim is the simulation, run the position  *)
(* of the step() call in progress: its local current_price, the progress   *)
(* of every thread of the parallel region through its share of the traders *)
(* and the progress of the submission and settlement loops. run.log lists  *)
(* the phases the call has gone through, a run of decisions, submissions   *)
(* or settlements listed once; run.calls lists the executeOrder calls of   *)
(* all the step() calls so far.                                            *)

\* faulty variant: the threads are not awaited at the end of the region
barrier_none(threads) == TRUE

\* the implicit barrier at the end of the parallel region: every thread
\* has left the critical section
barrier(threads) == \A t \in DOMAIN threads : threads[t].merged

\* log with event ev appended, unless it continues a run of ev
logged(log, ev) ==
    IF log # <<>> /\ log[Len(log)] = ev /\ ev \in {"decide", "submit", "settle"}
    THEN log ELSE Append(log, ev)

\* orders generated in the step in progress and not yet in the book
RECURSIVE pendingOrders(_, _)
pendingOrders(r, t) ==
    IF t = 0 THEN IF r.pc = "idle" THEN 0 ELSE Len(sim.current_orders) - r.submitted
    ELSE pendingOrders(r, t - 1)
         + (IF r.threads[t].merged THEN 0 ELSE Len(r.threads[t].local_orders))

PhasesInit ==
    /\ sim = TradingSimulation(NumTraders, InitialPrice, InitialCash)
    /\ run = [pc |-> "idle", current_price |-> 0,
              threads |-> [t \in 1..SimThreads |->
                             [k |-> 1, local_orders |-> <<>>, merged |-> TRUE]],
              submitted |-> 0, settled |-> 0, log |-> <<>>,
              calls |-> <<>>]
    /\ book = Idle /\ ret = Idle /\ mkt = Idle /\ ens = Idle
    /\ runA = Idle /\ runB = Idle /\ conc = Idle
    /\ agent = Idle /\ clock = Idle

\* step() is entered: the time advances and the price is read
BeginStep ==
    /\ run.pc = "idle"
    /\ sim.current_time < MaxTicks
    /\ sim' = [sim EXCEPT !.current_time = @ + 1, !.current_orders = <<>>,
                          !.executed_trades = <<>>]
    /\ run' = [pc |-> "decide",
               current_price |-> getCurrentPrice(sim.market),
               threads |-> [t \in 1..SimThreads |->
                              [k |-> 1, local_orders |-> <<>>,
                               merged |-> FALSE]],
               submitted |-> 0, settled |-> 0, log |-> <<"snapshot">>,
               calls |-> run.calls]
    /\ UNCHANGED <<book, ret, mkt, ens, runA, runB, conc, agent, clock>>

\* thread t runs the loop body for the next trader of its share
Decide(t) ==
    /\ run.pc = "decide"
    /\ LET chunk == threadChunk(t, SimThreads, Cardinality(DOMAIN sim.traders))
           k == run.threads[t].k
       IN  /\ k <= Len(chunk)
           /\ IF skipsDecision(sim.traders[chunk[k]])
              THEN /\ run' = [run EXCEPT !.threads[t].k = k + 1]
                   /\ sim' = sim
              ELSE \E draw \in (IF sim.traders[chunk[k]].strategy = "RANDOM"
                                 THEN Draws ELSE {0}) :
                     \E c \in {createOrder(sim.traders[chunk[k]],
                                            run.current_price,
                                            sim.current_time, draw)} :
                        /\ c.order.quantity > 0 =>
                              sim.order_book.next_order_id
                                + pendingOrders(run, SimThreads)
                                <= MaxSimOrderId
                        /\ sim' = [sim EXCEPT !.traders[chunk[k]] = c.trader]
                        /\ run' = [run EXCEPT
                              !.threads[t].k = k + 1,
                              !.threads[t].local_orders =
                                  IF c.order.quantity > 0
                                  THEN Append(@, Order(0, c.order.trader_id,
                                         IF c.order.is_buy THEN "BUY"
                                         ELSE "SELL",
                                         c.order.price, c.order.quantity,
                                         c.order.timestamp))
                                  ELSE @,
                              !.log = logged(@, "decide")]
    /\ UNCHANGED <<book, ret, mkt, ens, runA, runB, conc, agent, clock>>

\* thread t has finished its share (nowait) and runs the critical section
Merge(t) ==
    /\ run.pc = "decide"
    /\ run.threads[t].k
          > Len(threadChunk(t, SimThreads, Cardinality(DOMAIN sim.traders)))
    /\ ~run.threads[t].merged
    /\ sim' = [sim EXCEPT
                  !.current_orders = @ \o run.threads[t].local_orders]
    /\ run' = [run EXCEPT !.threads[t].merged = TRUE]
    /\ UNCHANGED <<book, ret, mkt, ens, runA, runB, conc, agent, clock>>

\* the parallel region ends
EndDecision ==
    /\ run.pc = "decide"
    /\ barrier(run.threads)
    /\ run' = [run EXCEPT !.pc = "submit"]
    /\ UNCHANGED <<book, ret, sim, mkt, ens, runA, runB, conc, agent, clock>>

\* one iteration of the submission loop
SubmitOrder ==
    /\ run.pc = "submit"
    /\ run.submitted < Len(sim.current_orders)
    /\ sim' = [sim EXCEPT !.order_book =
                  addOrder(@, sim.current_orders[run.submitted + 1])]
    /\ run' = [run EXCEPT !.submitted = @ + 1, !.log = logged(@, "submit")]
    /\ UNCHANGED <<book, ret, mkt, ens, runA, runB, conc, agent, clock>>

\* the submission loop has ended: order_book.matchOrders()
MatchPhase ==
    /\ run.pc = "submit"
    /\ run.submitted >= Len(sim.current_orders)
    /\ \E m \in matchOrders(sim.order_book) :
          sim' = [sim EXCEPT !.order_book = m.book,
                             !.executed_trades = m.new_trades]
    /\ run' = [run EXCEPT !.pc = "settle", !.log = logged(@, "match")]
    /\ UNCHANGED <<book, ret, mkt, ens, runA, runB, conc, agent, clock>>

\* one iteration of the loop over executed_trades
SettleTrade ==
    /\ run.pc = "settle"
    /\ run.settled < Len(sim.executed_trades)
    /\ sim' = [sim EXCEPT !.traders =
                  settleTrade(@, sim.executed_trades[run.settled + 1])]
    /\ run' = [run EXCEPT !.settled = @ + 1, !.log = logged(@, "settle"),
                          !.calls = @ \o settleCalls(
                                      sim.executed_trades[run.settled + 1])]
    /\ UNCHANGED <<book, ret, mkt, ens, runA, runB, conc, agent, clock>>

\* the settlement loop has ended: market.updatePrice(...)
UpdatePhase ==
    /\ run.pc = "settle"
    /\ run.settled >= Len(sim.executed_trades)
    /\ \E noise \in SimNoise :
          sim' = [sim EXCEPT !.market =
                     updatePrice(@, sideQuantity(sim.current_orders, "BUY"),
                                 sideQuantity(sim.current_orders, "SELL"),
                                 noise)]
    /\ run' = [run EXCEPT !.pc = "cleanup", !.log = logged(@, "update")]
    /\ UNCHANGED <<book, ret, mkt, ens, runA, runB, conc, agent, clock>>

\* the periodic cleanup, and step() returns
EndStep ==
    /\ run.pc = "cleanup"
    /\ sim' = [sim EXCEPT !.order_book =
                  IF cleanupDue(sim.current_time)
                  THEN cleanupFilledOrders(@) ELSE @]
    /\ run' = [run EXCEPT !.pc = "idle"]
    /\ UNCHANGED <<book, ret, mkt, ens, runA, runB, conc, agent, clock>>

PhasesNext ==
    \/ BeginStep
    \/ \E t \in 1..SimThreads : Decide(t) \/ Merge(t)
    \/ EndDecision
    \/ SubmitOrder
    \/ MatchPhase
    \/ SettleTrade
    \/ UpdatePhase
    \/ EndStep

SpecPhases == PhasesInit /\ [][PhasesNext]_vars

\* position of a phase in a tick
phaseRank(ev) ==
    CASE ev = "snapshot" -> 1
      [] ev = "decide" -> 2
      [] ev = "submit" -> 3
      [] ev = "match" -> 4
      [] ev = "settle" -> 5
      [] ev = "update" -> 6

\* every trader but trader 0 has decided once, and every thread has merged
allDecided ==
    \A t \in 1..SimThreads :
        /\ run.threads[t].merged
        /\ run.threads[t].k
              > Len(threadChunk(t, SimThreads, Cardinality(DOMAIN sim.traders)))

\* C20: the phases of a step() call happen in the order snapshot, decision,
\* submission, one matchOrders call, settlement, one updatePrice call: no
\* order is submitted before every agent has decided, the book is matched
\* once after every order is submitted, the price is updated once after
\* every trade is settled, and the next call starts after all of that.
C20_PhaseOrder ==
    /\ \A i \in DOMAIN run.log, j \in DOMAIN run.log :
          i < j => phaseRank(run.log[i]) < phaseRank(run.log[j])
    /\ run.pc \in {"submit", "settle", "cleanup"} => allDecided
    /\ run.pc \in {"settle", "cleanup"} =>
          /\ run.submitted = Len(sim.current_orders)
          /\ \E i \in DOMAIN run.log : run.log[i] = "match"
    /\ run.pc = "cleanup" => run.settled = Len(sim.executed_trades)
    /\ (run.pc \in {"cleanup", "idle"} /\ run.log # <<>>) =>
          /\ run.log[1] = "snapshot"
          /\ run.log[Len(run.log)] = "update"
          /\ allDecided
          /\ run.settled = Len(sim.executed_trades)
          /\ run.submitted = Len(sim.current_orders)

\* a step() call that generated two orders, matched and settled a trade and
\* updated the price
C20_Witness ==
    /\ run.pc = "cleanup"
    /\ run.log = <<"snapshot", "decide", "submit", "match", "settle", "update">>
    /\ Len(sim.current_orders) >= 2
    /\ run.settled >= 1

----------------------------------------------------------------------------
(* Properties of the decision phase *)

\* the market price at the end of the previous tick
previousPrice ==
    IF run.pc \in {"cleanup", "idle"}
    THEN sim.market.price_history[Len(sim.market.price_history) - 1]
    ELSE sim.market.current_price

\* the traders that have decided in the step() call in progress
decidedTraders ==
    UNION { { threadChunk(t, SimThreads, NumTraders)[k] :
                k \in 1..(run.threads[t].k - 1) } : t \in 1..SimThreads }

\* the orders generated in the step() call in progress
generatedOrders ==
    Range(sim.current_orders)
      \cup UNION { IF run.threads[t].merged THEN {}
                   ELSE Range(run.threads[t].local_orders) :
                   t \in 1..SimThreads }

\* number of orders of trader i among those generated
generatedBy(i) ==
    Cardinality({k \in DOMAIN sim.current_orders :
                    sim.current_orders[k].trader_id = i})
    + Cardinality(UNION { IF run.threads[t].merged THEN {}
                          ELSE { <<t, k>> : k \in
                                   {k \in DOMAIN run.threads[t].local_orders :
                                      run.threads[t].local_orders[k].trader_id = i} } :
                          t \in 1..SimThreads })

\* C21: in every tick the price the agents decide against is the market
\* price at the end of the previous tick, read once: every agent that has
\* decided has pushed that price to its window and every generated order
\* carries it; every agent has at most one order among those generated, and
\* trader 0 has none.
C21_PriceSnapshot ==
    run.log # <<>> =>
      /\ run.current_price = previousPrice
      /\ \A i \in decidedTraders \ {0} :
            /\ sim.traders[i].price_history # <<>>
            /\ sim.traders[i].price_history[Len(sim.traders[i].price_history)]
                  = previousPrice
      /\ \A o \in generatedOrders : o.price = previousPrice
      /\ \A i \in DOMAIN sim.traders :
            generatedBy(i) <= (IF i = 0 THEN 0 ELSE 1)

\* a later tick in which two agents have decided against a price that
\* differs from the initial one and both have generated an order
C21_Witness ==
    /\ run.pc = "submit"
    /\ run.current_price # InitialPrice
    /\ Len(sim.current_orders) = 2
    /\ sim.current_orders[1].trader_id # sim.current_orders[2].trader_id

----------------------------------------------------------------------------
(* Properties of the settlement phase *)

\* the trades settled so far, out of all those the book has executed
settledCount ==
    Len(sim.order_book.executed_trades)
      - (IF run.pc = "settle"
         THEN Len(sim.executed_trades) - run.settled ELSE 0)

\* C22: the executeOrder calls made so far are, for each trade matchOrders
\* has returned and the settlement loop has reached, in the order the
\* trades were returned, one call on the buyer followed by one call on the
\* seller, and nothing else: no trade is settled twice, in its own tick or
\* later, and nothing but a returned trade is settled.
C22_SettledOnce ==
    LET all == sim.order_book.executed_trades
    IN  /\ \A i \in DOMAIN all, j \in DOMAIN all :
              i < j => all[i].trade_id < all[j].trade_id
        /\ run.pc = "settle" =>
              sim.executed_trades
                = SubSeq(all, Len(all) - Len(sim.executed_trades) + 1, Len(all))
        /\ Len(run.calls) = 2 * settledCount
        /\ \A k \in 1..settledCount :
              /\ run.calls[2 * k - 1]
                    = [trade_id |-> all[k].trade_id,
                       trader |-> all[k].buyer_id, is_buy |-> TRUE,
                       price |-> all[k].price, quantity |-> all[k].quantity]
              /\ run.calls[2 * k]
                    = [trade_id |-> all[k].trade_id,
                       trader |-> all[k].seller_id, is_buy |-> FALSE,
                       price |-> all[k].price, quantity |-> all[k].quantity]

\* a trade was settled in one tick and the decision phase of the next tick
\* has begun
C22_Witness ==
    /\ run.pc = "decide"
    /\ Len(run.calls) >= 2
    /\ sim.order_book.executed_trades # <<>>
    /\ \E t \in 1..SimThreads : run.threads[t].k > 1

----------------------------------------------------------------------------
(* One trader's decisions: agent.trader is the trader, and the other       *)
(* fields describe its last pass through the body of the decision loop:    *)
(* the trader before it, the price and the random number it decided with,  *)
(* and the orders the pass pushed to local_orders.                         *)

\* decisions of one behaviour
MaxDecisions == 3

\* the traders' ids: one of every strategy makeDecision has a case for,
\* trader 0, and one of a strategy it has no case for
DecisionIds == {0, 1, 2, 3, 4, 5, 9}

\* cash, in tenths
DecisionCash == {30, 140, 300}

DecisionHoldings == {0, 10, 50}

\* prices, in tenths
DecisionPrices == {8, 10, 12}

\* the windows a behaviour starts with: a number of ticks at a steady price
Prefill == { [k \in 1..n |-> 10] : n \in {0, 2, 4, WindowCap - 1} }

DecisionInit ==
    /\ \E i \in DecisionIds, c \in DecisionCash, h \in DecisionHoldings,
          w \in Prefill :
          agent = [trader |-> [Trader(i, strategyOf(i), c) EXCEPT
                                 !.holdings = h, !.price_history = w],
                   before |-> [Trader(i, strategyOf(i), c) EXCEPT
                                 !.holdings = h, !.price_history = w],
                   price |-> 0, draw |-> 0, local_orders |-> <<>>,
                   calls |-> 0]
    /\ book = Idle /\ ret = Idle /\ sim = Idle /\ mkt = Idle /\ ens = Idle
    /\ runA = Idle /\ runB = Idle /\ conc = Idle /\ run = Idle
    /\ clock = Idle

\* one pass of a thread through the loop body, for this trader
DecideOnce ==
    /\ agent.calls < MaxDecisions
    /\ \E price \in DecisionPrices :
         \E draw \in (IF agent.trader.strategy = "RANDOM" THEN Draws ELSE {0}) :
           \E d \in {decideChunk((agent.trader.id :> agent.trader),
                                  <<agent.trader.id>>, 1, price,
                                  agent.calls + 1,
                                  (agent.trader.id :> draw))} :
              agent' = [trader |-> d.traders[agent.trader.id],
                        before |-> agent.trader,
                        price |-> price, draw |-> draw,
                        local_orders |-> d.local_orders,
                        calls |-> agent.calls + 1]
    /\ UNCHANGED <<book, ret, sim, mkt, ens, runA, runB, conc, run, clock>>

DecisionNext == DecideOnce

SpecDecision == DecisionInit /\ [][DecisionNext]_vars

\* the verdict of the strategy in the last decision
lastSignal ==
    signal(agent.before.strategy, agent.trader.price_history, agent.price,
           agent.draw)

\* C23: a decision pushes no order of quantity <= 0; it pushes a buy only
\* if the trader's cash covers it and a sell only if the trader's holdings
\* cover it; a decision to buy without the cash for the strategy's quantity,
\* or to sell without the holdings for it, pushes no order; and no decision
\* changes the trader's cash or holdings.
C23_DroppedIntents ==
    agent.calls > 0 =>
      /\ agent.trader.cash = agent.before.cash
      /\ agent.trader.holdings = agent.before.holdings
      /\ Len(agent.local_orders) <= 1
      /\ \A k \in DOMAIN agent.local_orders :
            LET o == agent.local_orders[k]
            IN  /\ o.quantity > 0
                /\ o.type = "BUY" => agent.before.cash >= o.price * o.quantity
                /\ o.type = "SELL" => agent.before.holdings >= o.quantity
      /\ (/\ lastSignal = "buy"
          /\ agent.before.cash
                < agent.price * trade_size(agent.before.strategy))
            => agent.local_orders = <<>>
      /\ (/\ lastSignal = "sell"
          /\ agent.before.holdings < trade_size(agent.before.strategy))
            => agent.local_orders = <<>>

\* a trader with some cash and a full window decided to buy without the
\* cash for its quantity, and no order was pushed
C23_Witness ==
    /\ agent.calls > 0
    /\ Len(agent.trader.price_history) >= MinSamples
    /\ lastSignal = "buy"
    /\ agent.before.cash > agent.price
    /\ agent.before.cash < agent.price * trade_size(agent.before.strategy)
    /\ agent.local_orders = <<>>

\* the base quantity of a strategy
baseQuantity(strategy) ==
    CASE strategy = "RISK_AVERSE" -> 5
      [] strategy = "HIGH_RISK" -> 20
      [] OTHER -> 10

\* C24: an order a decision produces at price p is a buy of the base
\* quantity capped by floor(cash / p) or a sell of the base quantity capped
\* by the holdings, the base quantity being 5 for RISK_AVERSE, 20 for
\* HIGH_RISK and 10 for the other strategies.
C24_OrderSizing ==
    \A k \in DOMAIN agent.local_orders :
        LET o == agent.local_orders[k]
            base == baseQuantity(agent.before.strategy)
        IN  /\ o.price = agent.price
            /\ o.type = "BUY" =>
                  /\ o.quantity <= agent.before.cash \div o.price
                  /\ o.quantity
                        = Min(base, agent.before.cash \div o.price)
            /\ o.type = "SELL" =>
                  /\ o.quantity <= agent.before.holdings
                  /\ o.quantity = Min(base, agent.before.holdings)

\* a HIGH_RISK trader's decision produced a buy
C24_Witness ==
    /\ agent.local_orders # <<>>
    /\ agent.before.strategy = "HIGH_RISK"
    /\ agent.local_orders[1].type = "BUY"
    /\ agent.local_orders[1].quantity = 20

\* C25: a decision call appends the current price to the trader's window
\* and drops the oldest entry when that makes more than 20, so the window
\* never holds more than 20 prices; a decision that leaves fewer than 5
\* prices in the window produces no order, so none of the first 4 decisions
\* of a trader does.
C25_Window ==
    /\ Len(agent.trader.price_history) <= 20
    /\ (agent.calls > 0 /\ agent.trader.id # 0) =>
          LET old == agent.before.price_history
              new == agent.trader.price_history
          IN  /\ new # <<>>
              /\ new[Len(new)] = agent.price
              /\ Len(old) < 20 =>
                    /\ Len(new) = Len(old) + 1
                    /\ \A k \in 1..Len(old) : new[k] = old[k]
              /\ Len(old) = 20 =>
                    /\ Len(new) = 20
                    /\ \A k \in 1..19 : new[k] = old[k + 1]
              /\ Len(new) < 5 => agent.local_orders = <<>>

\* a decision at a new price made with a full window
C25_Witness ==
    /\ agent.calls > 1
    /\ agent.trader.id # 0
    /\ Len(agent.before.price_history) = 20
    /\ agent.before.price_history[20] # 10
    /\ agent.price # agent.before.price_history[20]
    /\ agent.local_orders # <<>>

----------------------------------------------------------------------------
(* Properties of updatePrice *)

\* the price after a call with the accumulators bp and sp and the noise
\* drawn, prices in tenths
pricedFrom(bp, sp, noise) ==
    mkt'.current_price
      = Max((2 * mkt.base_price) \div 10,
            Min(mkt.current_price + (bp - sp) + noise, 3 * mkt.base_price))

\* C26: an updatePrice call sets the price to clamp(current + 0.1 x
\* (buy_pressure - sell_pressure) + noise, 0.2 x base, 3.0 x base), the
\* accumulators taken after this call's quantities are added, and leaves
\* each accumulator at 0.8 times that value, which is zero only if that
\* value is.
C26_PressureUpdate ==
    [][\E buy \in Flows, sell \in Flows, noise \in MarketNoise :
          LET bp == mkt.buy_pressure + buy
              sp == mkt.sell_pressure + sell
          IN  /\ pricedFrom(bp, sp, noise)
              /\ 10 * mkt'.buy_pressure = 8 * bp
              /\ 10 * mkt'.sell_pressure = 8 * sp
              /\ bp # 0 => mkt'.buy_pressure # 0
              /\ sp # 0 => mkt'.sell_pressure # 0]_vars

----------------------------------------------------------------------------
(* A market that receives no orders and draws no noise *)

\* the prices the market is constructed with, in tenths
QuietBases == {10 * k : k \in 1..30} \cup {1000}

QuietInit ==
    /\ \E p \in QuietBases : mkt = Market(p)
    /\ book = Idle /\ ret = Idle /\ sim = Idle /\ ens = Idle
    /\ runA = Idle /\ runB = Idle /\ conc = Idle /\ run = Idle
    /\ agent = Idle /\ clock = Idle

\* updatePrice(0, 0) with a noise of 0
QuietUpdate ==
    /\ Len(mkt.price_history) <= MaxUpdates
    /\ mkt' = updatePrice(mkt, 0, 0, 0)
    /\ UNCHANGED <<book, ret, sim, ens, runA, runB, conc, run, agent, clock>>

QuietNext == QuietUpdate

SpecQuiet == QuietInit /\ [][QuietNext]_vars

\* C27: after any number of updatePrice(0, 0) calls with the noise at 0 on
\* a freshly constructed market, the price is the base price, and so is
\* every price recorded since the construction.
C27_NoDrift ==
    /\ mkt.current_price = mkt.base_price
    /\ \A i \in DOMAIN mkt.price_history :
          mkt.price_history[i] = mkt.base_price

\* three quiet updates of a market constructed at 100
C27_Witness ==
    /\ mkt.base_price = 1000
    /\ Len(mkt.price_history) >= 4

----------------------------------------------------------------------------
(* A market with a long history: mkt is the market, ret.before the market  *)
(* before the last updatePrice call and ret.calls the number of calls of   *)
(* the behaviour.                                                          *)

\* order quantities of a tick
HistoryFlows == {0, 10}

\* the market after n - 1 updates without orders, the noise alternately
\* +0.5 and -0.5
agedMarket(n) ==
    [Market(InitialPrice) EXCEPT
       !.price_history = [k \in 1..n |-> IF k % 2 = 1 THEN InitialPrice
                                         ELSE InitialPrice + NoiseMax],
       !.current_price = IF n % 2 = 1 THEN InitialPrice
                         ELSE InitialPrice + NoiseMax]

HistoryInit ==
    /\ \E n \in {1, HistoryCap - 1, HistoryCap} :
          /\ mkt = agedMarket(n)
          /\ ret = [calls |-> 0, before |-> agedMarket(n)]
    /\ book = Idle /\ sim = Idle /\ ens = Idle
    /\ runA = Idle /\ runB = Idle /\ conc = Idle /\ run = Idle
    /\ agent = Idle /\ clock = Idle

RecordPrice ==
    /\ ret.calls < MaxUpdates
    /\ \E buy \in HistoryFlows, sell \in HistoryFlows, noise \in MarketNoise :
          mkt' = updatePrice(mkt, buy, sell, noise)
    /\ ret' = [calls |-> ret.calls + 1, before |-> mkt]
    /\ UNCHANGED <<book, sim, ens, runA, runB, conc, run, agent, clock>>

HistoryNext == RecordPrice

SpecHistory == HistoryInit /\ [][HistoryNext]_vars

\* C28: the price history never holds more than 1000 entries; an
\* updatePrice call appends the new price, which is the current price, and
\* when the history held 1000 entries it drops the oldest one, the others
\* keeping their order.
C28_History ==
    LET old == ret.before.price_history
        new == mkt.price_history
    IN  /\ Len(new) <= 1000
        /\ new[Len(new)] = mkt.current_price
        /\ ret.calls > 0 =>
              /\ Len(old) < 1000 =>
                    /\ Len(new) = Len(old) + 1
                    /\ \A k \in 1..Len(old) : new[k] = old[k]
              /\ Len(old) = 1000 =>
                    /\ Len(new) = 1000
                    /\ \A k \in 1..999 : new[k] = old[k + 1]

\* an update of a market whose history was full
C28_Witness ==
    /\ ret.calls >= 2
    /\ Len(ret.before.price_history) = 1000
    /\ mkt.price_history[1] # ret.before.price_history[1]
    /\ mkt.price_history[999] # mkt.price_history[1000]

----------------------------------------------------------------------------
(* The periodic side effects of step(): clock holds the simulation's       *)
(* time_step and current_time, in hundredths of a second, the times of the *)
(* last logging snapshot and of the last cleanupFilledOrders call (-1      *)
(* before the first) and the time between the last two of each (0 before   *)
(* the second).                                                            *)

\* step() calls of one behaviour
MaxCadenceTicks == 250

\* the values of config.time_scale, in tenths
TimeScales == {-10, 0, 5, 10, 20}

\* time_step after setTimeScale(scale): 0.1 / scale, and 0.1 for a scale
\* that is not positive
setTimeScale(scale) == IF scale <= 0 THEN 100 \div 10 ELSE 100 \div scale

\* static_cast<int>(current_time * 10) % 10 == 0
loggingDue(current_time) == (current_time \div 10) % 10 = 0

\* static_cast<int>(current_time) % 10 == 0
cleanupDueAt(current_time) == (current_time \div 100) % 10 = 0

CadenceInit ==
    /\ \E scale \in TimeScales :
          clock = [time_step |-> setTimeScale(scale), current_time |-> 0,
                   ticks |-> 0,
                   last_log |-> -1, log_gap |-> 0,
                   last_cleanup |-> -1, cleanup_gap |-> 0]
    /\ book = Idle /\ ret = Idle /\ sim = Idle /\ mkt = Idle /\ ens = Idle
    /\ runA = Idle /\ runB = Idle /\ conc = Idle /\ run = Idle
    /\ agent = Idle

\* the time and the periodic side effects of one step() call
Tick ==
    /\ clock.ticks < MaxCadenceTicks
    /\ \E t \in {clock.current_time + clock.time_step} :
          clock' = [time_step |-> clock.time_step,
                    current_time |-> t,
                    ticks |-> clock.ticks + 1,
                    last_log |-> IF loggingDue(t) THEN t ELSE clock.last_log,
                    log_gap |-> IF loggingDue(t) /\ clock.last_log >= 0
                                THEN t - clock.last_log ELSE clock.log_gap,
                    last_cleanup |-> IF cleanupDueAt(t) THEN t
                                     ELSE clock.last_cleanup,
                    cleanup_gap |-> IF cleanupDueAt(t) /\ clock.last_cleanup >= 0
                                    THEN t - clock.last_cleanup
                                    ELSE clock.cleanup_gap]
    /\ UNCHANGED <<book, ret, sim, mkt, ens, runA, runB, conc, run, agent>>

CadenceNext == Tick

SpecCadence == CadenceInit /\ [][CadenceNext]_vars

\* C29: for every time scale, about 1 simulated second (1 second give or
\* take one time step) lies between two consecutive logging snapshots and
\* about 10 simulated seconds between two consecutive cleanupFilledOrders
\* calls.
C29_Cadence ==
    /\ clock.log_gap # 0 =>
          /\ 100 - clock.time_step <= clock.log_gap
          /\ clock.log_gap <= 100 + clock.time_step
    /\ clock.cleanup_gap # 0 =>
          /\ 1000 - clock.time_step <= clock.cleanup_gap
          /\ clock.cleanup_gap <= 1000 + clock.time_step

----------------------------------------------------------------------------
(* The ensemble when every rank keeps running: a rank that can run a       *)
(* replica or enter the gather eventually does, and the collective and the *)
(* summary on rank 0 complete once they can.                               *)

SpecEnsembleFair ==
    EnsembleInit /\ [][EnsembleNext]_vars /\ WF_vars(EnsembleNext)

\* every rank has run its replicas and its records are in all_results
allContributed(e) ==
    /\ \A r \in ranksOf(e) :
          /\ e.ranks[r].pc \in {"gathered", "done"}
          /\ e.ranks[r].i = sims_for_this_rank(e.n, e.mpi_size, r)
          /\ Len(e.ranks[r].local_results) = e.ranks[r].i
          /\ \A k \in DOMAIN e.ranks[r].local_results :
                \E j \in DOMAIN e.all_results :
                    e.all_results[j] = e.ranks[r].local_results[k]
    /\ Cardinality(DOMAIN e.all_results) = e.n

\* some rank has not entered the gather
someRunning(e) == \E r \in ranksOf(e) : e.ranks[r].pc = "run"

\* C30: rank 0 has the summary only when every rank has contributed its
\* count and its records to the gather; while some rank has not finished
\* its replicas there is no summary and nothing has been gathered; and when
\* every rank keeps running, the summary is eventually produced.
C30_GatherBarrier ==
    /\ [](summarised(ens) => allContributed(ens))
    /\ [](someRunning(ens) =>
            /\ ~summarised(ens)
            /\ DOMAIN ens.all_results = {}
            /\ ens.summary = Stats(0, 0))
    /\ <>summarised(ens)

\* the summary of an ensemble in which three ranks have run a replica each
\* and one of them two
C30_Witness ==
    /\ summarised(ens)
    /\ ens.mpi_size = 3
    /\ ens.n = 4
    /\ ens.summary.total_trades >= 3

----------------------------------------------------------------------------
(* The simulation with its statistics read: ret holds the SimulationStats  *)
(* the last getStats() call returned and the simulation time of the call.  *)

GetStats ==
    /\ ret' = [stats |-> getStats(sim), time |-> sim.current_time]
    /\ ret' # ret
    /\ UNCHANGED <<book, sim, mkt, ens, runA, runB, conc, run, agent, clock>>

StatsNext == Step \/ AddHumanOrder \/ GetStats

SpecStats == SimInit /\ [][StatsNext]_vars

RECURSIVE sumOfSquares(_, _)
\* the sum of the squares of s[k..]
sumOfSquares(s, k) ==
    IF k > Len(s) THEN 0 ELSE s[k] * s[k] + sumOfSquares(s, k + 1)

\* the population variance of the prices of h (the mean of the squares
\* minus the square of the mean), times Len(h) squared
scaledVariance(h) ==
    Len(h) * sumOfSquares(h, 1) - SeqSum(h, 1, Len(h)) * SeqSum(h, 1, Len(h))

\* C31: the price_volatility getStats() reports is the population standard
\* deviation of the market's price history (here: to a hundredth, prices in
\* tenths), whether or not a trade has been executed.
C31_Volatility ==
    (ret # Idle /\ ret.time = sim.current_time) =>
      LET h == sim.market.price_history
          v == ret.stats.price_volatility
      IN  /\ v * v * Len(h) * Len(h) <= 100 * scaledVariance(h)
          /\ 100 * scaledVariance(h) < (v + 1) * (v + 1) * Len(h) * Len(h)

----------------------------------------------------------------------------
(* Further properties of the order book *)

\* C32: every trade matchOrders returns pairs a buy order with a sell order
\* whose limit price is not above the buy order's, at a price that is not
\* above the buyer's limit and not below the seller's.
C32_LimitsRespected ==
    ret.op = "matchOrders" =>
        \A i \in DOMAIN ret.new_trades :
            \E b \in ordersAfterMatch, s \in ordersAfterMatch :
                /\ b.order_id = ret.new_trades[i].buy_order_id
                /\ b.type = "BUY"
                /\ s.order_id = ret.new_trades[i].sell_order_id
                /\ s.type = "SELL"
                /\ b.price >= s.price
                /\ ret.new_trades[i].price <= b.price
                /\ ret.new_trades[i].price >= s.price

\* one call returned a trade at the buyer's limit and a trade below the
\* buyer's limit
C32_Witness ==
    /\ ret.op = "matchOrders"
    /\ \E i \in DOMAIN ret.new_trades, j \in DOMAIN ret.new_trades :
          \E b \in ordersAfterMatch, c \in ordersAfterMatch :
              /\ b.order_id = ret.new_trades[i].buy_order_id
              /\ b.price = ret.new_trades[i].price
              /\ c.order_id = ret.new_trades[j].buy_order_id
              /\ c.price > ret.new_trades[j].price

\* the orders of the book and those the last call erased
knownOrders == bookOrders(book) \cup Range(ret.purged)

RECURSIVE tradedQuantity(_, _, _)
\* the total quantity of the trades of the history from k on that reference
\* order o on its side
tradedQuantity(trades, k, o) ==
    IF k > Len(trades) THEN 0
    ELSE (IF (IF o.type = "BUY" THEN trades[k].buy_order_id
              ELSE trades[k].sell_order_id) = o.order_id
          THEN trades[k].quantity ELSE 0)
         + tradedQuantity(trades, k + 1, o)

\* C33: the filled_quantity of every order, in the book or just erased from
\* it, is the sum of the quantities of the trades of the history that
\* reference its id on its side.
C33_FillsMatchTrades ==
    \A o \in knownOrders :
        o.filled_quantity = tradedQuantity(book.executed_trades, 1, o)

\* a buy order was filled by two trades of the history
C33_Witness ==
    \E o \in knownOrders :
        /\ o.type = "BUY"
        /\ o.filled_quantity >= 2
        /\ \E i \in DOMAIN book.executed_trades,
              j \in DOMAIN book.executed_trades :
              /\ i < j
              /\ book.executed_trades[i].buy_order_id = o.order_id
              /\ book.executed_trades[j].buy_order_id = o.order_id

\* the trade ids along a history
tradeIds(trades) == [i \in DOMAIN trades |-> trades[i].trade_id]

----------------------------------------------------------------------------
(* The while loop of matchOrders taken one iteration at a time, on books   *)
(* that hold orders of any quantity; an order of quantity zero or below is *)
(* filled from the moment it is added.                                     *)

\* orders added before the first call
MaxLoopOrders == 3

\* the quantities of the orders added
LoopQuantities == {-1, 0, 1, 2}

\* the state of the loop: the book and the locals of the call
loopState(b, r) ==
    [buy_orders |-> b.buy_orders, sell_orders |-> b.sell_orders,
     executed_trades |-> b.executed_trades,
     next_order_id |-> b.next_order_id, next_trade_id |-> b.next_trade_id,
     new_trades |-> r.new_trades, purged |-> r.purged]

\* the book of a loop state
loopBook(st) ==
    [buy_orders |-> st.buy_orders, sell_orders |-> st.sell_orders,
     executed_trades |-> st.executed_trades,
     next_order_id |-> st.next_order_id, next_trade_id |-> st.next_trade_id]

AddLoopOrder ==
    /\ ret.op \in {"init", "addOrder"}
    /\ book.next_order_id <= MaxLoopOrders
    /\ \E t \in {"BUY", "SELL"}, p \in AnyPrices, q \in LoopQuantities :
          book' = addOrder(book, Order(0, 0, t, p, q, 0))
    /\ ret' = [op |-> "addOrder", new_trades |-> <<>>, purged |-> <<>>]
    /\ UNCHANGED <<sim, mkt, ens, runA, runB, conc, run, agent, clock>>

\* the price levels of the book
levelCount(b) ==
    Cardinality(DOMAIN b.buy_orders) + Cardinality(DOMAIN b.sell_orders)

\* matchOrders is entered: the lock is taken and new_trades is empty; passes
\* counts the iterations of the call and levels keeps the levels it found
EnterLoop ==
    /\ ret.op # "loop"
    /\ ret' = [op |-> "loop", new_trades |-> <<>>, purged |-> <<>>,
               passes |-> 0, levels |-> levelCount(book)]
    /\ UNCHANGED <<book, sim, mkt, ens, runA, runB, conc, run, agent, clock>>

\* one iteration of the while loop that reaches the end of its body
Iterate ==
    /\ ret.op = "loop"
    /\ ~loopStops(loopState(book, ret))
    /\ \E st \in loopPass(loopState(book, ret)) :
          /\ book' = loopBook(st)
          /\ ret' = [ret EXCEPT !.new_trades = st.new_trades,
                                !.purged = st.purged,
                                !.passes = @ + 1]
    /\ UNCHANGED <<sim, mkt, ens, runA, runB, conc, run, agent, clock>>

\* the loop ends, by its condition or by the break, and the call returns
ReturnTrades ==
    /\ ret.op = "loop"
    /\ loopStops(loopState(book, ret))
    /\ ret' = [ret EXCEPT !.op = "matchOrders"]
    /\ UNCHANGED <<book, sim, mkt, ens, runA, runB, conc, run, agent, clock>>

LoopNext == AddLoopOrder \/ EnterLoop \/ Iterate \/ ReturnTrades

SpecLoop == BookInit /\ [][LoopNext]_vars

\* C35: every iteration of the while loop of matchOrders that does not stop
\* removes at least one price level, so a call makes no more iterations than
\* the book had levels when it started and then returns, whatever the
\* quantities of the orders of the book.
C35_Terminates ==
    /\ [][ (ret.op = "loop" /\ ret'.op = "loop") =>
              levelCount(book') < levelCount(book) ]_vars
    /\ [](ret.op = "loop" =>
              /\ ret.passes + levelCount(book) <= ret.levels
              /\ (loopStops(loopState(book, ret))
                     \/ loopPass(loopState(book, ret)) # {}))

\* a call has returned after two iterations, one of which made a trade and
\* one of which found a level whose orders were all of quantity zero or below
C35_Witness ==
    /\ ret.op = "matchOrders"
    /\ ret.passes >= 2
    /\ ret.new_trades # <<>>
    /\ \E o \in Range(ret.purged) : o.quantity <= 0

\* the ids of the orders resting in book b
restingIds(b) == {o.order_id : o \in bookOrders(b)}

\* book b holds a price level without orders
hasEmptyLevel(b) ==
    \/ \E p \in DOMAIN b.buy_orders : b.buy_orders[p] = <<>>
    \/ \E p \in DOMAIN b.sell_orders : b.sell_orders[p] = <<>>

\* C36: with orders of positive quantity added unfilled, matchOrders leaves
\* no filled order and no empty price level, so that cleanupFilledOrders
\* changes nothing; an order that leaves the book is filled, and no order is
\* ever CANCELLED.
C36_OnlyFilledLeave ==
    [][ /\ ret'.op = "matchOrders" =>
              /\ \A o \in bookOrders(book') : ~isFilled(o)
              /\ ~hasEmptyLevel(book')
              /\ cleanupFilledOrders(book') = book'
        /\ ret'.op = "cleanupFilledOrders" => book' = book
        /\ \A id \in restingIds(book) \ restingIds(book') :
              \E o \in Range(ret'.purged) : o.order_id = id /\ isFilled(o)
        /\ \A o \in bookOrders(book') \cup Range(ret'.purged) :
              o.status # "CANCELLED" ]_vars

\* a matchOrders call erased a filled order and left the order it was
\* matched with in the book, partially filled
C36_Witness ==
    /\ ret.op = "matchOrders"
    /\ ret.purged # <<>>
    /\ \E o \in bookOrders(book) :
          0 < o.filled_quantity /\ o.filled_quantity < o.quantity

\* C37: no trade of the history of a simulation has the same agent as buyer
\* and as seller.
C37_NoSelfTrade ==
    \A t \in Range(sim.order_book.executed_trades) : t.buyer_id # t.seller_id

\* the queue of price p in side m, empty when the level is absent
queueAt(m, p) == IF p \in DOMAIN m THEN m[p] ELSE <<>>

\* side m2 is side m with one order, of id id, put at the end of the queue
\* of one level and nothing else changed
appendedTo(m, m2, id) ==
    \E p \in DOMAIN m2 :
        /\ DOMAIN m2 = (DOMAIN m) \cup {p}
        /\ Len(m2[p]) = Len(queueAt(m, p)) + 1
        /\ SubSeq(m2[p], 1, Len(m2[p]) - 1) = queueAt(m, p)
        /\ m2[p][Len(m2[p])].order_id = id
        /\ m2[p][Len(m2[p])].price = p
        /\ m2[p][Len(m2[p])].filled_quantity = 0
        /\ \A q \in (DOMAIN m) \ {p} : m2[q] = m[q]

\* C38: addOrder puts the order at the end of the queue of its price level
\* on its side and changes nothing else of the book but the order id
\* counter: no order is matched, and the trade history and the trade id
\* counter stay as they are, also when the order crosses the other side.
C38_AddOnly ==
    [][ ret'.op = "addOrder" =>
          /\ \/ /\ appendedTo(book.buy_orders, book'.buy_orders,
                               book.next_order_id)
                /\ book'.sell_orders = book.sell_orders
             \/ /\ appendedTo(book.sell_orders, book'.sell_orders,
                               book.next_order_id)
                /\ book'.buy_orders = book.buy_orders
          /\ book'.executed_trades = book.executed_trades
          /\ book'.next_trade_id = book.next_trade_id
          /\ book'.next_order_id = book.next_order_id + 1 ]_vars

\* addOrder has just put an order behind another one at its level, and the
\* best bid is not below the best ask
C38_Witness ==
    /\ ret.op = "addOrder"
    /\ DOMAIN book.buy_orders # {} /\ DOMAIN book.sell_orders # {}
    /\ getBestBid(book) >= getBestAsk(book)
    /\ \E o \in bookOrders(book) :
          /\ o.order_id = book.next_order_id - 1
          /\ LET m == IF o.type = "BUY" THEN book.buy_orders
                      ELSE book.sell_orders
             IN  Len(m[o.price]) >= 2 /\ m[o.price][Len(m[o.price])] = o
          /\ IF o.type = "BUY" THEN o.price >= getBestAsk(book)
             ELSE o.price <= getBestBid(book)

\* the gather has completed on the coordinator
gathered(e) == e.ranks[0].pc \in {"gathered", "done"}

\* C39: once the gather has completed, all_results holds one record for
\* each replica index 0 .. N-1, in ascending index order, with the stats
\* that replica returned, also when there are more ranks than replicas.
C39_GatheredRecords ==
    gathered(ens) =>
        /\ DOMAIN ens.all_results = 0..(ens.n - 1)
        /\ \A j \in DOMAIN ens.all_results :
              /\ ens.all_results[j].simulation_index = j
              /\ ens.ran[j] = <<ens.all_results[j].stats>>

\* the records of two replicas with different stats have been gathered from
\* three ranks, one of which ran no replica
C39_Witness ==
    /\ gathered(ens)
    /\ ens.n = 2 /\ ens.mpi_size = 3
    /\ ens.ranks[2].local_results = <<>>
    /\ ens.all_results[0].stats # ens.all_results[1].stats

====
